---- MODULE Spec2Model ----
(***************************************************************************)
(* Model of tools/kbdreverse.cpp, the keyboard layout decompiler of        *)
(* winkbdlayouts: the value formatters of SourceGenerator (integer,        *)
(* symbol, bitMask, wchar), the extent list and its reconciliation         *)
(* (sortDataStructures) and the sentinel-terminated table walks.           *)
(*                                                                         *)
(* Text is modelled as a sequence of tokens.  A token is one character     *)
(* ("0", "x", "L", "'") or one identifier taken from a symbol table        *)
(* ("WCH_NONE") or the separator " | ".  Numbers are formatted digit by    *)
(* digit, so that the base of a formatted number is visible in the text.   *)
(***************************************************************************)
EXTENDS Integers, Sequences, FiniteSets, TLC

VARIABLES
    num_only,   \* ReverseOptions::num_only (option -n)
    call,       \* the formatter call that was made: operation and arguments
    ret,        \* the text it returned
    descs,      \* the WStringList of descriptions handed to wchar()
    mem,        \* the bytes of the loaded image, by address
    alldata,    \* SourceGenerator::_alldata, the list of data structures
    pc,         \* where sortDataStructures stands
    previous,   \* the iterator previous, as an index in alldata
    current,    \* the iterator current, as an index in alldata
    recorded,   \* _alldata as it was when sortDataStructures was entered
    tbl,        \* the cells of the image a table walk reads, by address
    wkind,      \* the type of the records of the table that is walked
    wcount,     \* the parameter count of the walk (number of wch slots)
    wsize,      \* the parameter size of the walk (distance between records)
    ptr,        \* the record pointer of the walk (vtb, vtwc, lg, dk, vts, vtvk)
    rows,       \* the rows of the table declaration the walk has made
    reads,      \* the addresses the walk has read
    steps,      \* the number of iterations the loop of the walk has made
    wds,        \* the DataStructure ds the walk hands to _alldata
    wpc,        \* where the walk stands
    tables,     \* the KBDTABLES handed to generate(): true for a pointer that is not null
    opt_kbd_type, \* ReverseOptions::kbd_type (option -t)
    gpc,        \* where generate() stands
    generated,  \* the declarations generate() has written, in order
    nullreads,  \* the null pointer fields generate() has read through
    kbd_type,   \* the local kbd_type of generate(), written as KBD_TYPE
    root,       \* the literal of kbd_tables, by field
    wtable,     \* the VK_TO_WCHAR_TABLE array pVkToWcharTable points to
    mods_vk_to_bit, \* pCharModifiers->pVkToBit is not null
    hexa_dump,  \* ReverseOptions::hexa_dump (option -d)
    pushed,     \* the names of the table extents pushed on _alldata, in order
    sorts,      \* the number of runs of sortDataStructures
    env,        \* what wmain finds: the options, the DLL, the version information
    mpc,        \* where wmain stands
    exit_status, \* the exit status of the process, -1 while it runs
    out_open,   \* setOutput has opened the output
    out_text,   \* text has been written to the output
    fatal_msgs, \* the number of calls of fatal()
    generator_run, \* whether a generator has been entered and has run to its end
    image_base, \* the address at which the image of the extents is loaded
    first_page, \* genHexaDump: the start of the dumped range
    last_page,  \* genHexaDump: the end of the dumped range
    sections    \* genHexaDump: the sections dumped, in order

fmtVars == <<num_only, call, ret, descs>>

extVars == <<mem, alldata, pc, previous, current, recorded>>

walkVars == <<tbl, wkind, wcount, wsize, ptr, rows, reads, steps, wds, wpc>>

genVars == <<tables, opt_kbd_type, gpc, generated, nullreads, kbd_type, root,
             wtable, mods_vk_to_bit, hexa_dump, pushed, sorts>>

mainVars == <<env, mpc, exit_status, out_open, out_text, fatal_msgs, generator_run>>

dumpVars == <<image_base, first_page, last_page, sections>>

vars == <<fmtVars, extVars, walkVars, genVars, mainVars, dumpVars>>

\* The variables a part of the program leaves alone.
notFmtVars == <<extVars, walkVars, genVars, mainVars, dumpVars>>

notExtVars == <<fmtVars, walkVars, genVars, mainVars, dumpVars>>

notWalkVars == <<fmtVars, extVars, genVars, mainVars, dumpVars>>

notGenVars == <<extVars, walkVars, mainVars, dumpVars>>

notMainVars == <<fmtVars, extVars, walkVars, genVars, dumpVars>>

-----------------------------------------------------------------------------
(* Bounds of the formatter inputs. *)

\* Values and symbol keys are ValueBits wide.
ValueBits == 4
\* A generated symbol table has at most MaxKeys entries.
MaxKeys == 2

RECURSIVE Pow2(_)
Pow2(n) == IF n = 0 THEN 1 ELSE 2 * Pow2(n - 1)

Values == 0 .. (Pow2(ValueBits) - 1)

\* hex_digits arguments used by the callers: default (decimal), 2 and 4.
HexDigitsArgs == {0, 2, 4}

-----------------------------------------------------------------------------
(* Bit operations of the C++ integer types, on non-negative values. *)

RECURSIVE BitAnd(_, _)
BitAnd(a, b) ==
    IF a = 0 \/ b = 0 THEN 0
    ELSE (IF a % 2 = 1 /\ b % 2 = 1 THEN 1 ELSE 0) + 2 * BitAnd(a \div 2, b \div 2)

RECURSIVE BitOr(_, _)
BitOr(a, b) ==
    IF a = 0 THEN b
    ELSE IF b = 0 THEN a
    ELSE (IF a % 2 = 1 \/ b % 2 = 1 THEN 1 ELSE 0) + 2 * BitOr(a \div 2, b \div 2)

\* value & ~bits
BitClear(value, bits) == value - BitAnd(value, bits)

-----------------------------------------------------------------------------
(* Format(): printf-style conversions. *)

DigitChars == <<"0", "1", "2", "3", "4", "5", "6", "7",
                "8", "9", "A", "B", "C", "D", "E", "F">>

\* The digits of n in the given base, most significant first.
RECURSIVE DigitsOf(_, _)
DigitsOf(n, base) ==
    IF n < base THEN <<DigitChars[n + 1]>>
    ELSE Append(DigitsOf(n \div base, base), DigitChars[(n % base) + 1])

\* The 0 flag with a field width: pad on the left with zeroes.
RECURSIVE ZeroPad(_, _)
ZeroPad(digits, width) ==
    IF Len(digits) >= width THEN digits ELSE ZeroPad(<<"0">> \o digits, width)

\* Format(L"%lld", value)
FormatDecimal(value) == DigitsOf(value, 10)

\* Format(L"0x%0*llX", hex_digits, value)
FormatHex(hex_digits, value) == <<"0", "x">> \o ZeroPad(DigitsOf(value, 16), hex_digits)

\* Format(L"0x%0*lld", hex_digits, value): the conversion is %lld, decimal.
FormatRemainingBits(hex_digits, value) ==
    <<"0", "x">> \o ZeroPad(DigitsOf(value, 10), hex_digits)

\* Format(L"0x%04X", value)
FormatHex4(value) == <<"0", "x">> \o ZeroPad(DigitsOf(value, 16), 4)

-----------------------------------------------------------------------------
(* Symbol tables: std::map<Value, WString>, a function from keys to names, *)
(* iterated in ascending key order.                                        *)

\* The name a generated table gives to key k (SYM(e) names e by its text).
SymName(k) == "SYM_" \o ToString(k)

SymTable(keys) == [k \in keys |-> SymName(k)]

\* The key sets of at most n keys.
RECURSIVE KeySetsUpTo(_)
KeySetsUpTo(n) ==
    IF n = 0 THEN {{}}
    ELSE LET smaller == KeySetsUpTo(n - 1)
         IN smaller \cup {K \cup {k} : K \in smaller, k \in Values}

KeySets == KeySetsUpTo(MaxKeys)

Min(S) == CHOOSE x \in S : \A y \in S : x <= y

\* The keys of a std::map in iteration order.
RECURSIVE MapOrder(_)
MapOrder(keys) ==
    IF keys = {} THEN <<>>
    ELSE <<Min(keys)>> \o MapOrder(keys \ {Min(keys)})

-----------------------------------------------------------------------------
(* SourceGenerator::integer, symbol, bitMask. *)

integer(value, hex_digits) ==
    IF hex_digits <= 0 THEN FormatDecimal(value) ELSE FormatHex(hex_digits, value)

symbol(symbols, value, hex_digits) ==
    IF ~num_only /\ value \in DOMAIN symbols THEN <<symbols[value]>>
    ELSE integer(value, hex_digits)

\* FlagFound without the test that leaves the zero key out.
FlagFoundZeroKeyToo(k, value) == BitAnd(value, k) = k

\* One test of the loop body of bitMask on the entry with key k:
\* does the entry contribute its name?
FlagFound(k, value) == k # 0 /\ BitAnd(value, k) = k

\* The for loop of bitMask over the entries order[i..]; acc is
\* [str, bits, zero]: zero is set when the loop returned the symbol for zero.
RECURSIVE bitMaskLoop(_, _, _, _, _)
bitMaskLoop(symbols, order, i, value, acc) ==
    IF i > Len(order) THEN acc
    ELSE LET k == order[i] IN
         IF k = 0 /\ value = 0
         THEN [str |-> <<symbols[k]>>, bits |-> acc.bits, zero |-> TRUE]
         ELSE IF FlagFound(k, value)
         THEN bitMaskLoop(symbols, order, i + 1, value,
                  [str  |-> (IF acc.str # <<>> THEN acc.str \o <<" | ">> ELSE acc.str)
                            \o <<symbols[k]>>,
                   bits |-> BitOr(acc.bits, k),
                   zero |-> FALSE])
         ELSE bitMaskLoop(symbols, order, i + 1, value, acc)

\* bitMaskResult giving up the symbols as soon as some bits are left over.
bitMaskResultAllOrNothing(r, value, hex_digits) ==
    IF r.zero THEN r.str
    ELSE IF r.bits # 0 /\ BitClear(value, r.bits) = 0 THEN r.str
    ELSE integer(value, hex_digits)

\* What bitMask returns once the loop is over with result r.
bitMaskResult(r, value, hex_digits) ==
    IF r.zero THEN r.str
    ELSE IF r.bits # 0
    THEN IF BitClear(value, r.bits) # 0
         THEN (IF r.str # <<>> THEN r.str \o <<" | ">> ELSE r.str)
              \o FormatRemainingBits(hex_digits, BitClear(value, r.bits))
         ELSE r.str
    ELSE integer(value, hex_digits)

bitMask(symbols, value, hex_digits) ==
    IF ~num_only
    THEN bitMaskResult(
             bitMaskLoop(symbols, MapOrder(DOMAIN symbols), 1, value,
                         [str |-> <<>>, bits |-> 0, zero |-> FALSE]),
             value, hex_digits)
    ELSE integer(value, hex_digits)

-----------------------------------------------------------------------------
(* The formatter calls. *)

NoCall == [op |-> "none"]

\* No extent is tracked: the state of the extent list where a
\* specification does not use it.
NoExtents ==
    /\ mem = <<>>
    /\ alldata = <<>>
    /\ pc = "unused"
    /\ previous = 0
    /\ current = 0
    /\ recorded = <<>>

\* No table is walked: the state of the walk where a specification does
\* not use it.
NoWalk ==
    /\ tbl = <<>>
    /\ wkind = "none"
    /\ wcount = 0
    /\ wsize = 0
    /\ ptr = 0
    /\ rows = <<>>
    /\ reads = {}
    /\ steps = 0
    /\ wds = <<>>
    /\ wpc = "unused"

\* No formatter is called: the state of the formatter where a
\* specification does not use it.
NoFormat ==
    /\ num_only = FALSE
    /\ call = NoCall
    /\ ret = <<>>
    /\ descs = <<>>

\* A position in generate(): a place and, in the sequence of pointer
\* fields, the index of the field.
At(place, i) == [at |-> place, i |-> i]

\* generate() is not called: the state of the driver where a
\* specification does not use it.
NoGenerate ==
    /\ tables = <<>>
    /\ opt_kbd_type = 0
    /\ gpc = At("unused", 0)
    /\ generated = <<>>
    /\ nullreads = {}
    /\ kbd_type = 0
    /\ root = <<>>
    /\ wtable = <<>>
    /\ mods_vk_to_bit = FALSE
    /\ hexa_dump = FALSE
    /\ pushed = <<>>
    /\ sorts = 0

\* Nothing is dumped: the state of genHexaDump where a specification does
\* not use it.
NoDump ==
    /\ image_base = 0
    /\ first_page = 0
    /\ last_page = 0
    /\ sections = <<>>

\* wmain is not run: the state of the process where a specification does
\* not use it.
NoMain ==
    /\ env = <<>>
    /\ mpc = "unused"
    /\ exit_status = -1
    /\ out_open = FALSE
    /\ out_text = FALSE
    /\ fatal_msgs = 0
    /\ generator_run = "no"

InitFormat ==
    /\ num_only \in BOOLEAN
    /\ call = NoCall
    /\ ret = <<>>
    /\ descs = <<>>
    /\ NoExtents
    /\ NoWalk
    /\ NoGenerate
    /\ NoMain
    /\ NoDump

CallBitMask ==
    /\ call = NoCall
    /\ \E keys \in KeySets, value \in Values, hex_digits \in HexDigitsArgs :
          /\ call' = [op |-> "bitMask", symbols |-> SymTable(keys),
                      value |-> value, hex_digits |-> hex_digits]
          /\ ret' = bitMask(SymTable(keys), value, hex_digits)
    /\ UNCHANGED <<num_only, descs, notFmtVars>>

NextFormat == CallBitMask

SpecFormat == InitFormat /\ [][NextFormat]_vars

-----------------------------------------------------------------------------
(* The extent list: class DataStructure and SourceGenerator::_alldata. *)

\* The image is MemSize bytes long.
MemSize == 2
\* At most MaxExtents data structures are recorded before the list is sorted.
MaxExtents == 3

Addresses == 0 .. (MemSize - 1)

\* A byte is zero or not.
ByteValues == {0, 1}

\* Names of recorded data structures: a table and the strings it points to.
StructureNames == {"key_names", "Strings in key_names"}

\* DataStructure(n, a, s)
DataStructure(n, a, s) == [name |-> n, address |-> a, size |-> s]

\* DataStructure(n, a, end): size = uintptr_t(end) - uintptr_t(a)
DataStructureTo(n, a, end) == [name |-> n, address |-> a, size |-> end - a]

\* DataStructure::end()
End(d) == d.address + d.size

\* The data structures the generators can record inside the image.
Recordable ==
    {DataStructure(n, a, s) : n \in StructureNames, a \in Addresses, s \in 0 .. MemSize}
    \cap {d \in [name : StructureNames, address : Addresses, size : 0 .. MemSize] :
             End(d) <= MemSize}

\* IsZero(start, end): every byte of [start, end) is zero.
IsZero(start, end) == \A a \in start .. (end - 1) : mem[a] = 0

\* std::list::sort with DataStructure::operator<: a stable sort by address.
RECURSIVE InsertByAddress(_, _)
\* InsertByAddress placing an element before those of equal address.
RECURSIVE InsertByAddressBeforeEquals(_, _)
InsertByAddressBeforeEquals(sorted, d) ==
    IF sorted = <<>> THEN <<d>>
    ELSE IF d.address <= Head(sorted).address THEN <<d>> \o sorted
    ELSE <<Head(sorted)>> \o InsertByAddressBeforeEquals(Tail(sorted), d)

InsertByAddress(sorted, d) ==
    IF sorted = <<>> THEN <<d>>
    ELSE IF d.address < Head(sorted).address THEN <<d>> \o sorted
    ELSE <<Head(sorted)>> \o InsertByAddress(Tail(sorted), d)

RECURSIVE ListSort(_)
ListSort(list) ==
    IF list = <<>> THEN <<>>
    ELSE InsertByAddress(ListSort(SubSeq(list, 1, Len(list) - 1)), list[Len(list)])

\* std::list::erase and std::list::insert, by index.
ListErase(list, i) == SubSeq(list, 1, i - 1) \o SubSeq(list, i + 1, Len(list))

ListInsert(list, i, d) == SubSeq(list, 1, i - 1) \o <<d>> \o SubSeq(list, i, Len(list))

\* inter_zero
InterZero(list, p, c) == IsZero(End(list[p]), list[c].address)

\* MergeTest that merges touching structures only.
MergeTestTouchingOnly(list, p, c) ==
    /\ list[p].name = list[c].name
    /\ End(list[p]) = list[c].address

\* The test of the if: same name, and adjacent or separated by zeroes only.
MergeTest(list, p, c) ==
    /\ list[p].name = list[c].name
    /\ (End(list[p]) = list[c].address \/ InterZero(list, p, c))

\* MergeStep that moves on to the next pair after a merge.
MergeStepMovingOn(list, p, c) ==
    [list     |-> ListErase([list EXCEPT ![p].size = End(list[c]) - list[p].address], c),
     previous |-> c,
     current  |-> c + 1]

\* The then branch: previous is made to end where current ends, current is
\* erased and becomes the element after it; previous stays.
MergeStep(list, p, c) ==
    [list     |-> ListErase([list EXCEPT ![p].size = End(list[c]) - list[p].address], c),
     previous |-> p,
     current  |-> c]

\* GapStep with the two names exchanged.
GapStepNamesExchanged(list, p, c) ==
    [list     |-> ListInsert(list, c,
                     DataStructureTo(IF InterZero(list, p, c) THEN "Unreferenced"
                                                              ELSE "Padding",
                                     End(list[p]), list[c].address)),
     previous |-> c,
     current  |-> c + 1]

\* The inner if of the else branch: a structure for the space in between is
\* inserted before current; previous becomes that structure and current is
\* again the structure it was.
GapStep(list, p, c) ==
    [list     |-> ListInsert(list, c,
                     DataStructureTo(IF InterZero(list, p, c) THEN "Padding"
                                                              ELSE "Unreferenced",
                                     End(list[p]), list[c].address)),
     previous |-> c,
     current  |-> c + 1]

\* NextPair that cuts the first structure where the second one starts.
NextPairCutting(list, p, c) ==
    [list     |-> [list EXCEPT ![p] = DataStructureTo(list[p].name, list[p].address,
                                                     list[c].address)],
     previous |-> c,
     current  |-> c + 1]

\* Move to next pair of structures.
NextPair(list, p, c) == [list |-> list, previous |-> c, current |-> c + 1]

\* ElseStep that never describes the space between two structures.
ElseStepNoGap(list, p, c) == NextPair(list, p, c)

\* The else branch.
ElseStep(list, p, c) ==
    IF End(list[p]) < list[c].address THEN GapStep(list, p, c) ELSE NextPair(list, p, c)

\* One iteration of the while loop.
ScanStep(list, p, c) ==
    IF MergeTest(list, p, c) THEN MergeStep(list, p, c) ELSE ElseStep(list, p, c)

\* The while loop, from the pair (p, c) to the end of the list.
RECURSIVE ScanLoop(_, _, _)
ScanLoop(list, p, c) ==
    IF c > Len(list) THEN list
    ELSE ScanLoop(ScanStep(list, p, c).list,
                  ScanStep(list, p, c).previous,
                  ScanStep(list, p, c).current)

\* sortDataStructures() as a function of the list (and of the image).
sortDataStructures(list) == ScanLoop(ListSort(list), 1, 2)

-----------------------------------------------------------------------------
(* The extent list at work: structures are recorded, then                  *)
(* sortDataStructures runs, one iteration of its loop at a time.           *)

InitExtent ==
    /\ mem \in [Addresses -> ByteValues]
    /\ alldata = <<>>
    /\ pc = "generate"
    /\ previous = 0
    /\ current = 0
    /\ recorded = <<>>
    /\ NoFormat
    /\ NoWalk
    /\ NoGenerate
    /\ NoMain
    /\ NoDump

\* _alldata.push_back(ds)
Record ==
    /\ pc = "generate"
    /\ Len(alldata) < MaxExtents
    /\ \E d \in Recordable : alldata' = Append(alldata, d)
    /\ UNCHANGED <<mem, pc, previous, current, recorded, notExtVars>>

\* sortDataStructures(), up to the loop: the list is sorted and the two
\* iterators are set on its first two elements.  The list is not empty.
SortBegin ==
    /\ pc = "generate"
    /\ alldata # <<>>
    /\ recorded' = alldata
    /\ alldata' = ListSort(alldata)
    /\ previous' = 1
    /\ current' = 2
    /\ pc' = "scan"
    /\ UNCHANGED <<mem, notExtVars>>

AtPair == pc = "scan" /\ current <= Len(alldata)

Merge ==
    /\ AtPair
    /\ MergeTest(alldata, previous, current)
    /\ alldata' = MergeStep(alldata, previous, current).list
    /\ previous' = MergeStep(alldata, previous, current).previous
    /\ current' = MergeStep(alldata, previous, current).current
    /\ UNCHANGED <<mem, pc, recorded, notExtVars>>

NoMerge ==
    /\ AtPair
    /\ ~MergeTest(alldata, previous, current)
    /\ alldata' = ElseStep(alldata, previous, current).list
    /\ previous' = ElseStep(alldata, previous, current).previous
    /\ current' = ElseStep(alldata, previous, current).current
    /\ UNCHANGED <<mem, pc, recorded, notExtVars>>

\* current == _alldata.end(): the loop and the function are over.
SortEnd ==
    /\ pc = "scan"
    /\ current > Len(alldata)
    /\ pc' = "sorted"
    /\ UNCHANGED <<mem, alldata, previous, current, recorded, notExtVars>>

NextExtent == Record \/ SortBegin \/ Merge \/ NoMerge \/ SortEnd

SpecExtent == InitExtent /\ [][NextExtent]_vars

-----------------------------------------------------------------------------
(* Properties of bitMask. *)

TokensOf(text) == {text[i] : i \in 1 .. Len(text)}

\* The text is a number and nothing else: digits and the x of a 0x prefix.
IsNumericText(text) ==
    /\ text # <<>>
    /\ TokensOf(text) \subseteq (TokensOf(DigitChars) \cup {"x"})

\* The entry with key k matches the value: its bits are all set in the
\* value, or it is the entry for zero and the value is zero.
KeyMatches(k, value) ==
    \/ k = 0 /\ value = 0
    \/ k # 0 /\ \A b \in 0 .. (ValueBits - 1) :
                   (k \div Pow2(b)) % 2 = 1 => (value \div Pow2(b)) % 2 = 1

MatchedKeys(symbols, value) == {k \in DOMAIN symbols : KeyMatches(k, value)}

\* The bits of the value that no key of the set covers.
UncoveredBits(keys, value) ==
    LET Covered(b) == \E k \in keys : (k \div Pow2(b)) % 2 = 1
        Bits == {b \in 0 .. (ValueBits - 1) :
                    (value \div Pow2(b)) % 2 = 1 /\ ~Covered(b)}
        RECURSIVE Sum(_)
        Sum(S) == IF S = {} THEN 0
                  ELSE LET b == CHOOSE x \in S : TRUE IN Pow2(b) + Sum(S \ {b})
    IN Sum(Bits)

SymbolicBitMaskCall == call.op = "bitMask" /\ ~num_only

\* C1: in symbolic mode bitMask returns the plain numeric text
\* integer(value, hexDigits) if and only if no key of the table matched the
\* value; when some key matched, the result holds the name of every matched
\* key and is not numeric text.
C1_NumericIffNoMatch ==
    SymbolicBitMaskCall =>
        LET matched == MatchedKeys(call.symbols, call.value) IN
        /\ (ret = integer(call.value, call.hex_digits)) <=> (matched = {})
        /\ matched # {} =>
              /\ \A k \in matched : call.symbols[k] \in TokensOf(ret)
              /\ ~IsNumericText(ret)

\* C1 witness: a partial match, some key matched and bits are left over.
C1_PartialMatchSeen ==
    /\ SymbolicBitMaskCall
    /\ MatchedKeys(call.symbols, call.value) # {}
    /\ UncoveredBits(MatchedKeys(call.symbols, call.value), call.value) # 0

\* The value of a C hexadecimal literal 0x<hex digits>, -1 for other text.
HexDigitValue(c) == (CHOOSE i \in 1 .. 16 : DigitChars[i] = c) - 1

RECURSIVE HexValue(_)
HexValue(digits) ==
    IF digits = <<>> THEN 0
    ELSE 16 * HexValue(SubSeq(digits, 1, Len(digits) - 1))
         + HexDigitValue(digits[Len(digits)])

ParseHexLiteral(text) ==
    IF /\ Len(text) >= 3
       /\ text[1] = "0"
       /\ text[2] = "x"
       /\ \A i \in 3 .. Len(text) : text[i] \in TokensOf(DigitChars)
    THEN HexValue(SubSeq(text, 3, Len(text)))
    ELSE -1

\* The text after the last separator " | ".
LastTerm(text) ==
    LET seps == {i \in 1 .. Len(text) : text[i] = " | "}
        last == CHOOSE i \in seps : \A j \in seps : j <= i
    IN IF seps = {} THEN text ELSE SubSeq(text, last + 1, Len(text))

\* C2: when bitMask matched some key and bits of the value are covered by no
\* matched key, the result ends with " | " and a hexadecimal literal whose
\* value is exactly the uncovered bits.
C2_ResidualIsHexLiteral ==
    (/\ SymbolicBitMaskCall
     /\ MatchedKeys(call.symbols, call.value) # {}
     /\ UncoveredBits(MatchedKeys(call.symbols, call.value), call.value) # 0)
    => /\ " | " \in TokensOf(ret)
       /\ ParseHexLiteral(LastTerm(ret))
            = UncoveredBits(MatchedKeys(call.symbols, call.value), call.value)

\* What C3 says of a call of bitMask.
ZeroSymbolRule ==
    /\ call.value = 0 =>
          ret = IF 0 \in DOMAIN call.symbols
                THEN <<call.symbols[0]>>
                ELSE integer(0, call.hex_digits)
    /\ (call.value # 0 /\ 0 \in DOMAIN call.symbols) =>
          call.symbols[0] \notin TokensOf(ret)

\* C3 as stated, for every call: bitMask with value 0 returns the name of
\* the zero-key entry when the table has one and integer(0, hexDigits) when
\* it has none; the zero-key name is never part of the result for a non-zero
\* value.
C3_ZeroSymbolEveryMode == call.op = "bitMask" => ZeroSymbolRule

\* C3 amended: the same, in symbolic (not numeric-only) mode.
C3_ZeroSymbolSymbolicMode == SymbolicBitMaskCall => ZeroSymbolRule

\* C3 witness: value 0 formatted with a table that has a zero-key entry and
\* another entry, in symbolic mode.
C3_ZeroSymbolReturned ==
    /\ SymbolicBitMaskCall
    /\ call.value = 0
    /\ 0 \in DOMAIN call.symbols
    /\ Cardinality(DOMAIN call.symbols) > 1
    /\ ret = <<call.symbols[0]>>

-----------------------------------------------------------------------------
(* SourceGenerator::wchar: the literal of a WCHAR. *)

WCharValues == 0 .. 65535

WCH_NONE == 61440
WCH_DEAD == 61441
WCH_LGTR == 61442

\* The characters 0x20 .. 0x7E, each by itself; 0x60, the grave accent, is
\* written "grave".
Ascii == <<
    " ", "!", "\"", "#", "$", "%", "&", "'", "(", ")", "*", "+", ",", "-", ".", "/",
    "0", "1", "2", "3", "4", "5", "6", "7", "8", "9", ":", ";", "<", "=", ">", "?",
    "@", "A", "B", "C", "D", "E", "F", "G", "H", "I", "J", "K", "L", "M", "N", "O",
    "P", "Q", "R", "S", "T", "U", "V", "W", "X", "Y", "Z", "[", "\\", "]", "^", "_",
    "grave", "a", "b", "c", "d", "e", "f", "g", "h", "i", "j", "k", "l", "m", "n", "o",
    "p", "q", "r", "s", "t", "u", "v", "w", "x", "y", "z", "{", "|", "}", "~" >>

Chr(c) == Ascii[c - 31]

\* const SymbolTable wchar_symbols: complete symbol for a WCHAR.
wchar_symbols ==
    (9 :> <<"L", "'", "\\", "t", "'">>) @@
    (10 :> <<"L", "'", "\\", "n", "'">>) @@
    (13 :> <<"L", "'", "\\", "r", "'">>) @@
    (39 :> <<"L", "'", "\\", "'", "'">>) @@
    (92 :> <<"L", "'", "\\", "\\", "'">>) @@
    (WCH_NONE :> <<"WCH_NONE">>) @@
    (WCH_DEAD :> <<"WCH_DEAD">>) @@
    (WCH_LGTR :> <<"WCH_LGTR">>)

\* The keys of const SymbolTable wchar_descriptions.
wchar_descriptions ==
    (8 .. 13) \cup {27, 127} \cup (160 .. 275) \cup (278 .. 299)
    \cup (302 .. 305) \cup (308 .. 318) \cup (321 .. 328) \cup (330 .. 333)
    \cup (336 .. 382) \cup {402} \cup (536 .. 539) \cup (710 .. 711)
    \cup (728 .. 729) \cup (731 .. 733)

\* The description wchar_descriptions gives for a key.
Description(value) == "desc_" \o ToString(value)

\* wchar testing for a printable character before anything else.
wcharPrintableFirst(value, d) ==
    IF value >= 32 /\ value < 127
    THEN [text |-> <<"L", "'", Chr(value), "'">>, descs |-> d]
    ELSE IF ~num_only /\ value \in DOMAIN wchar_symbols
    THEN [text |-> wchar_symbols[value], descs |-> d]
    ELSE [text  |-> FormatHex4(value),
          descs |-> IF ~num_only /\ value \in wchar_descriptions
                    THEN Append(d, Description(value)) ELSE d]

\* wchar(value, descs): the text returned and the list descs afterwards.
wchar(value, d) ==
    IF ~num_only /\ value \in DOMAIN wchar_symbols
    THEN [text |-> wchar_symbols[value], descs |-> d]
    ELSE IF value = 39 \/ value = 92
    THEN [text |-> <<"L", "'", "\\", Chr(value), "'">>, descs |-> d]
    ELSE IF value >= 32 /\ value < 127
    THEN [text |-> <<"L", "'", Chr(value), "'">>, descs |-> d]
    ELSE [text  |-> FormatHex4(value),
          descs |-> IF ~num_only /\ value \in wchar_descriptions
                    THEN Append(d, Description(value)) ELSE d]

\* The list of descriptions a caller holds when it formats one more WCHAR:
\* empty at the first column of a line, not empty afterwards.
CallerDescs == {<<>>, <<Description(8)>>}

InitChar ==
    /\ num_only \in BOOLEAN
    /\ call = NoCall
    /\ ret = <<>>
    /\ descs \in CallerDescs
    /\ NoExtents
    /\ NoWalk
    /\ NoGenerate
    /\ NoMain
    /\ NoDump

CallWchar ==
    /\ call = NoCall
    /\ \E value \in WCharValues :
          /\ call' = [op |-> "wchar", value |-> value, descs |-> descs]
          /\ ret' = wchar(value, descs).text
          /\ descs' = wchar(value, descs).descs
    /\ UNCHANGED <<num_only, notFmtVars>>

NextChar == CallWchar

SpecChar == InitChar /\ [][NextChar]_vars

-----------------------------------------------------------------------------
(* Properties of wchar. *)

\* The forms of a character literal.
IsEscapedLiteral(text, value) ==
    /\ value \in 32 .. 126
    /\ text = <<"L", "'", "\\", Chr(value), "'">>

IsPlainLiteral(text, value) ==
    /\ value \in 32 .. 126
    /\ text = <<"L", "'", Chr(value), "'">>

IsHex4(text, value) == Len(text) = 6 /\ ParseHexLiteral(text) = value

\* The precedence C10 states, the catalog being consulted when useCatalog.
CharacterFormRule(useCatalog) ==
    LET v == call.value IN
    /\ IF useCatalog /\ v \in DOMAIN wchar_symbols THEN ret = wchar_symbols[v]
       ELSE IF v = 39 \/ v = 92 THEN IsEscapedLiteral(ret, v)
       ELSE IF v \in 32 .. 126 THEN IsPlainLiteral(ret, v)
       ELSE IsHex4(ret, v)
    /\ \/ descs = call.descs
       \/ /\ descs = Append(call.descs, Description(v))
          /\ IsHex4(ret, v)
          /\ v \in wchar_descriptions

\* C10 as stated, for every call: the catalog symbol if the value has one,
\* else an escaped literal for quote or backslash, else a plain literal for
\* printable ASCII, else the form 0xNNNN; a description is added only with
\* the form 0xNNNN and only if the description catalog holds the value.
C10_CharacterFormEveryMode == call.op = "wchar" => CharacterFormRule(TRUE)

\* C10 amended: the same precedence, the catalog symbol being chosen in
\* symbolic mode only (numeric-only mode skips the symbol catalog).
C10_CharacterFormByMode == call.op = "wchar" => CharacterFormRule(~num_only)

\* C10 witness: the tab character in symbolic mode, which the symbol catalog
\* and the description catalog both hold, gave the tab escape and no
\* description.
C10_TabEscapeSeen ==
    /\ call.op = "wchar"
    /\ ~num_only
    /\ call.value = 9
    /\ call.value \in wchar_descriptions
    /\ ret = <<"L", "'", "\\", "t", "'">>
    /\ descs = call.descs

-----------------------------------------------------------------------------
(* Properties of sortDataStructures. *)

\* Every byte of the image from address a up to, not including, address b
\* is zero.
BytesBetweenAreZero(a, b) == \A x \in Addresses : (a <= x /\ x < b) => mem[x] = 0

\* The pair the loop looks at: same name, and touching or only zero bytes
\* in between.
PairToMerge(prev, cur) ==
    /\ prev.name = cur.name
    /\ (End(prev) = cur.address \/ BytesBetweenAreZero(End(prev), cur.address))

SyntheticNames == {"Padding", "Unreferenced"}

Synthetic(list) == {i \in 1 .. Len(list) : list[i].name \in SyntheticNames}

\* C4: at each pair (prev, cur) the loop looks at, the two are merged
\* exactly when they have the same name and touch or have only zero bytes
\* between them; the merged extent starts at prev.start and ends at cur.end,
\* cur leaves the list and the extended prev is compared with the next
\* extent; when the loop is over no such pair is left in the list.
C4_MergeExactlyWhen ==
    [][/\ AtPair =>
            LET prev == alldata[previous]
                cur  == alldata[current]
            IN IF PairToMerge(prev, cur)
               THEN /\ Len(alldata') = Len(alldata) - 1
                    /\ alldata'[previous] =
                           [name    |-> prev.name,
                            address |-> prev.address,
                            size    |-> End(cur) - prev.address]
                    /\ \A i \in 1 .. Len(alldata') :
                           i # previous =>
                               alldata'[i] = alldata[IF i < current THEN i ELSE i + 1]
                    /\ previous' = previous
                    /\ current' = current
               ELSE /\ Len(alldata') >= Len(alldata)
                    /\ alldata'[previous] = prev
                    /\ alldata'[Len(alldata') - (Len(alldata) - current)] = cur
       /\ pc' = "sorted" =>
            \A i \in 1 .. (Len(alldata') - 1) :
                ~PairToMerge(alldata'[i], alldata'[i + 1])
      ]_vars

\* C4 witness: three recorded extents of one name, the second apart from
\* the first by zero bytes only, ended as one extent.
C4_ChainCollapsed ==
    /\ pc = "sorted"
    /\ Len(recorded) = 3
    /\ Len(alldata) = 1
    /\ \E i, j \in 1 .. 3 : End(recorded[i]) < recorded[j].address

\* C5: for a pair that is not merged and has prev.end < cur.start, exactly
\* one extent is inserted between the two, covering [prev.end, cur.start),
\* named "Padding" if every byte of the gap is zero and "Unreferenced" if
\* not; nothing is inserted when prev.end >= cur.start or the pair is merged.
C5_GapClassified ==
    [][AtPair =>
          LET prev == alldata[previous]
              cur  == alldata[current]
          IN IF ~PairToMerge(prev, cur) /\ End(prev) < cur.address
             THEN /\ Len(alldata') = Len(alldata) + 1
                  /\ alldata'[current] =
                         [name    |-> IF BytesBetweenAreZero(End(prev), cur.address)
                                      THEN "Padding" ELSE "Unreferenced",
                          address |-> End(prev),
                          size    |-> cur.address - End(prev)]
                  /\ \A i \in 1 .. Len(alldata) :
                         alldata'[IF i < current THEN i ELSE i + 1] = alldata[i]
             ELSE /\ Len(alldata') <= Len(alldata)
                  /\ Cardinality(Synthetic(alldata')) <= Cardinality(Synthetic(alldata))
      ]_vars

\* C5 witness: two extents of the same name with a non-zero byte between
\* them have an "Unreferenced" extent between them.
C5_UnreferencedBetweenSameNames ==
    /\ pc = "sorted"
    /\ \E i \in 2 .. (Len(alldata) - 1) :
          /\ alldata[i].name = "Unreferenced"
          /\ alldata[i - 1].name = alldata[i + 1].name
          /\ alldata[i - 1].name \notin SyntheticNames

\* C6: running sortDataStructures again on the list it produced changes
\* nothing.
C6_Idempotent == pc = "sorted" => sortDataStructures(alldata) = alldata

\* C6 witness: a first run that inserted an extent, on recorded extents
\* of which two overlap with equal starts and one has length zero.
C6_ReconciledOverlaps ==
    /\ pc = "sorted"
    /\ Len(recorded) = 3
    /\ \E i, j \in 1 .. 3 :
          /\ i # j
          /\ recorded[i].address = recorded[j].address
          /\ recorded[i].size > 0
          /\ recorded[j].size > 0
    /\ \E i \in 1 .. 3 : recorded[i].size = 0
    /\ Synthetic(alldata) # {}

\* C7: after sortDataStructures the list is ordered by start address and
\* each extent begins no later than the one before it ends, so every
\* address from the first start to the last end is inside a listed extent.
C7_ContiguousCover ==
    pc = "sorted" =>
        /\ \A i \in 1 .. (Len(alldata) - 1) :
              /\ alldata[i].address <= alldata[i + 1].address
              /\ End(alldata[i]) >= alldata[i + 1].address
        /\ \A a \in alldata[1].address .. (End(alldata[Len(alldata)]) - 1) :
              \E i \in 1 .. Len(alldata) :
                  alldata[i].address <= a /\ a < End(alldata[i])

\* C7 witness: a list that had a gap, which a synthetic extent now fills.
C7_GapFilled ==
    /\ pc = "sorted"
    /\ Len(alldata) >= 3
    /\ \E i \in 2 .. (Len(alldata) - 1) :
          /\ alldata[i].name \in SyntheticNames
          /\ alldata[i].size > 0

-----------------------------------------------------------------------------
(* The sentinel-terminated table walks: genVkToBits, genVscToString,       *)
(* genVscToVk, genDeadKeys, genSubVkToWchar and genLgToWchar.  The image   *)
(* is a row of cells, one cell for one field of a record; the table starts *)
(* at address 0.  The strings a VSC_LPWSTR record points to are outside    *)
(* the table and are not read here.                                        *)

\* The image has TblCells cells.
TblCells == 7
\* A VK_TO_WCHARSn or LIGATUREn table has at most MaxSlots wch slots.
MaxSlots == 2
\* The size given for such a table is at most MaxStride cells.
MaxStride == 4
\* The model follows a walk for WalkBound iterations of its loop.
WalkBound == 3

TblAddresses == 0 .. (TblCells - 1)

CellValues == {0, 1, 2}

\* The tables whose record type is fixed, and those walked with a count
\* and a size.
FixedKinds == {"VK_TO_BIT", "VSC_LPWSTR", "VSC_VK", "DEADKEY"}

VariableKinds == {"VK_TO_WCHARS", "LIGATURE"}

\* The fields the loop body reads after the key:
\*   VK_TO_BIT     Vk         | ModBits
\*   VSC_LPWSTR    vsc        | pwsz
\*   VSC_VK        Vsc        | Vk
\*   DEADKEY       dwBoth     | wchComposed, uFlags
\*   VK_TO_WCHARSn VirtualKey | Attributes, wch[0 .. count-1]
\*   LIGATUREn     VirtualKey | ModificationNumber, wch[0 .. count-1]
FieldCount(kind, count) ==
    IF kind \in VariableKinds THEN 1 + count
    ELSE IF kind = "DEADKEY" THEN 2
    ELSE 1

\* The key and the fields of a record.
RecordWidth(kind, count) == 1 + FieldCount(kind, count)

\* Stride that is the width of the record and not the size that was given.
StrideOfRecordShape(kind, count, size) == RecordWidth(kind, count)

\* Moving to the next structure: vtb++ for a fixed type, the pointer plus
\* size for a table of variable size.
Stride(kind, count, size) ==
    IF kind \in VariableKinds THEN size ELSE RecordWidth(kind, count)

Zeroes(n) == [i \in 1 .. n |-> 0]

\* The last null element, as the row each walk writes for it:
\*   {0, 0}   {0x00, NULL}   {0x00, 0x0000}   {0, 0, 0}
\*   VK_TO_WCHARSn: "{0," then resize(count + 1, "0,") then "0}"
\*   LIGATUREn:     "{0," then resize(count, "0,")     then "0}"
SentinelRow(kind, count) ==
    [sentinel |-> TRUE,
     cells    |-> IF kind = "VK_TO_WCHARS" THEN Zeroes(count + 2)
                  ELSE IF kind = "LIGATURE" THEN Zeroes(count + 1)
                  ELSE Zeroes(RecordWidth(kind, count))]

\* The row made of the record at address a: its key and its fields.
RowAt(a, kind, count) ==
    [sentinel |-> FALSE,
     cells    |-> [j \in 1 .. RecordWidth(kind, count) |-> tbl[a + j - 1]]]

\* A walk is called on a table of the image.
InitWalk ==
    /\ tbl \in [TblAddresses -> CellValues]
    /\ \/ wkind \in FixedKinds /\ wcount = 0 /\ wsize = 0
       \/ wkind \in VariableKinds /\ wcount \in 1 .. MaxSlots /\ wsize \in 0 .. MaxStride
    /\ ptr = 0
    /\ rows = <<>>
    /\ reads = {}
    /\ steps = 0
    /\ wds = <<>>
    /\ wpc = "walk"
    /\ NoFormat
    /\ NoExtents
    /\ NoGenerate
    /\ NoMain
    /\ NoDump

\* One iteration of the loop: the key is not zero, a row is made of the
\* record and the pointer moves to the next record.
WalkRecord ==
    /\ wpc = "walk"
    /\ steps < WalkBound
    /\ \A i \in 0 .. FieldCount(wkind, wcount) : ptr + i \in TblAddresses
    /\ tbl[ptr] # 0
    /\ rows' = Append(rows, RowAt(ptr, wkind, wcount))
    /\ reads' = reads \cup {ptr + i : i \in 0 .. FieldCount(wkind, wcount)}
    /\ ptr' = ptr + Stride(wkind, wcount, wsize)
    /\ steps' = steps + 1
    /\ UNCHANGED <<tbl, wkind, wcount, wsize, wds, wpc, notWalkVars>>

\* The end of a table whose last null element is at address p, taken at
\* that element and not after it.
AtSentinel(p, kind, count, size) == p

\* After the last null element the pointer moves once more: vtb++, or the
\* pointer plus size.
PastSentinel(p, kind, count, size) == p + Stride(kind, count, size)

\* The key is zero: the loop is over, the row of the last null element is
\* made, the pointer moves past it and the data structure ends there.
WalkSentinel ==
    /\ wpc = "walk"
    /\ ptr \in TblAddresses
    /\ tbl[ptr] = 0
    /\ rows' = Append(rows, SentinelRow(wkind, wcount))
    /\ reads' = reads \cup {ptr}
    /\ ptr' = PastSentinel(ptr, wkind, wcount, wsize)
    /\ wds' = DataStructureTo(wkind, 0, PastSentinel(ptr, wkind, wcount, wsize))
    /\ wpc' = "done"
    /\ UNCHANGED <<tbl, wkind, wcount, wsize, steps, notWalkVars>>

\* The addresses the next iteration reads outside the image.
OutsideReads ==
    {a \in {ptr + i : i \in 0 .. FieldCount(wkind, wcount)} :
        /\ a \notin TblAddresses
        /\ a = ptr \/ (ptr \in TblAddresses /\ tbl[ptr] # 0)}

\* A read outside the image: the process ends there ("crashed"), or the
\* walk goes on with whatever it has read ("astray") and anything may
\* follow; the model does not follow it.
WalkFault ==
    /\ wpc = "walk"
    /\ \E a \in OutsideReads : reads' = reads \cup {a}
    /\ wpc' \in {"crashed", "astray"}
    /\ UNCHANGED <<tbl, wkind, wcount, wsize, ptr, rows, steps, wds, notWalkVars>>

NextWalk == WalkRecord \/ WalkSentinel \/ WalkFault

SpecWalk == InitWalk /\ [][NextWalk]_vars

-----------------------------------------------------------------------------
(* Properties of the table walks. *)

\* The distance between two records of the array that is walked: the size
\* its descriptor gives, or the size of the record type.
WalkStride ==
    CASE wkind \in {"VK_TO_WCHARS", "LIGATURE"} -> wsize
      [] wkind = "DEADKEY" -> 3
      [] OTHER -> 2

\* The records of the table lie one after another: the distance between
\* two records is no less than a record.
RecordsApart == WalkStride >= RecordWidth(wkind, wcount)

\* The record at index n is the first record of the table with key zero.
FirstZeroKeyAt(n) ==
    /\ n * WalkStride \in TblAddresses
    /\ tbl[n * WalkStride] = 0
    /\ \A i \in 0 .. (n - 1) : tbl[i * WalkStride] # 0

\* The record at index i as a row.
RowOfRecord(i) ==
    [sentinel |-> FALSE,
     cells    |-> <<tbl[i * WalkStride]>> \o
                  [j \in 1 .. FieldCount(wkind, wcount) |-> tbl[i * WalkStride + j]]]

\* n data records in array order, then the sentinel row.
RowsOfTable(n) ==
    [i \in 1 .. (n + 1) |->
        IF i <= n THEN RowOfRecord(i - 1) ELSE SentinelRow(wkind, wcount)]

\* C8: a walk of any of the six kinds on an array of records whose first
\* zero-key record is at index n makes exactly the rows of records
\* 0 .. n-1 in that order and then the sentinel row, and reads no cell of
\* a record at an index greater than n.  (An array: records lie one after
\* another, the distance between two is no less than a record.)
C8_SentinelWalk ==
    \A n \in 0 .. TblCells :
        (wpc # "unused" /\ RecordsApart /\ FirstZeroKeyAt(n)) =>
            /\ wpc \notin {"crashed", "astray"}
            /\ \A a \in reads : a < (n + 1) * WalkStride
            /\ wpc = "walk" => steps <= n /\ rows = SubSeq(RowsOfTable(n), 1, steps)
            /\ wpc = "done" => rows = RowsOfTable(n)

\* C8 witness: a walk that made two different data rows and then the
\* sentinel row.
C8_TwoRecordsThenSentinel ==
    /\ wpc = "done"
    /\ RecordsApart
    /\ Len(rows) = 3
    /\ rows[1] # rows[2]
    /\ rows[3].sentinel

\* C9: a walk that has made as many iterations as the iteration bound
\* without finding a zero key has stopped; it is not about to make one
\* more iteration.
C9_StopsAtIterationBound ==
    (wpc = "walk" /\ steps >= WalkBound) => (ptr \in TblAddresses => tbl[ptr] = 0)

-----------------------------------------------------------------------------
(* Properties of the numeric-only mode. *)

\* C11: with option -n every formatter call returns a plain numeric
\* literal: no symbolic name and no character literal.
C11_NumericOnlyMode == (num_only /\ call # NoCall) => IsNumericText(ret)

-----------------------------------------------------------------------------
(* generate(): the driver.  It visits the pointer fields of the KBDTABLES  *)
(* in a fixed order, generates a declaration for each field that is not    *)
(* null and then writes the literal of the root structure.  What the       *)
(* sub-generators write inside a declaration is modelled only as far as    *)
(* the root literal refers to it: the number of elements of                *)
(* scancode_to_vk and the number of wch slots of the ligatures.            *)

\* The low word of fLocaleFlags is LocaleBits wide.
LocaleBits == 5
\* bMaxVSCtoVK is at most MaxVscCount.
MaxVscCount == 2

LOWORD(x) == x % 65536

HIWORD(x) == x \div 65536

MAKELONG(lo, hi) == (lo % 65536) + 65536 * (hi % 65536)

\* { SYM(KLLF_ALTGR), SYM(KLLF_SHIFTLOCK), SYM(KLLF_LRM_RLM) } and
\* { SYM(KBD_VERSION) }, with the values kbd.h gives these names.
LocaleFlagSymbols ==
    (1 :> "KLLF_ALTGR") @@ (2 :> "KLLF_SHIFTLOCK") @@ (4 :> "KLLF_LRM_RLM")

VersionSymbols == (1 :> "KBD_VERSION")

localeFlags(flags) ==
    IF num_only THEN FormatHex(8, flags)
    ELSE <<"MAKELONG", "(">> \o bitMask(LocaleFlagSymbols, LOWORD(flags), 4)
         \o <<", ">> \o symbol(VersionSymbols, HIWORD(flags), 4) \o <<")">>

\* pointer without the test of the value.
pointerAlwaysNamed(value, name) == name

\* pointer(value, name); a pointer is modelled by whether it is not null.
pointer(value, name) == IF value THEN name ELSE <<"NULL">>

\* PointerFields with the ligatures first.
PointerFieldsLigaturesFirst ==
    <<"pLigature", "pCharModifiers", "pVkToWcharTable", "pDeadKey", "pKeyNames",
      "pKeyNamesExt", "pKeyNamesDead", "pusVSCtoVK", "pVSCtoVK_E0", "pVSCtoVK_E1">>

\* The pointer fields in the order generate() visits them.
PointerFields ==
    <<"pCharModifiers", "pVkToWcharTable", "pDeadKey", "pKeyNames", "pKeyNamesExt",
      "pKeyNamesDead", "pusVSCtoVK", "pVSCtoVK_E0", "pVSCtoVK_E1", "pLigature">>

\* The name of the declaration generated for each of them.
DeclName ==
    [pCharModifiers |-> "char_modifiers", pVkToWcharTable |-> "vk_to_wchar",
     pDeadKey |-> "dead_keys", pKeyNames |-> "key_names",
     pKeyNamesExt |-> "key_names_ext", pKeyNamesDead |-> "key_names_dead",
     pusVSCtoVK |-> "scancode_to_vk", pVSCtoVK_E0 |-> "scancode_to_vk_e0",
     pVSCtoVK_E1 |-> "scancode_to_vk_e1", pLigature |-> "ligatures"]

\* kbd_tables of kbdusmaruska.c; the number of elements of scancode_to_vk
\* is cut down to MaxVscCount.
KbdUsMaruska ==
    [pCharModifiers |-> TRUE, pVkToWcharTable |-> TRUE, pDeadKey |-> FALSE,
     pKeyNames |-> TRUE, pKeyNamesExt |-> TRUE, pKeyNamesDead |-> FALSE,
     pusVSCtoVK |-> TRUE, bMaxVSCtoVK |-> MaxVscCount,
     pVSCtoVK_E0 |-> TRUE, pVSCtoVK_E1 |-> TRUE,
     fLocaleFlags |-> MAKELONG(0, 1),
     nLgMax |-> 0, cbLgEntry |-> 0, pLigature |-> FALSE,
     dwType |-> 0, dwSubType |-> 0]

\* sizeof(LIGATUREn): BYTE VirtualKey, WORD ModificationNumber, WCHAR wch[n].
SizeofLigature(n) == 4 + 2 * n

\* The headers generate() is given: those of kbdusmaruska.c with every
\* combination of null and non-null pointers, with other locale flags,
\* with other array scalars, with other types.
HeadersOfPointers ==
    {[f \in DOMAIN KbdUsMaruska |->
         IF \E i \in 1 .. Len(PointerFields) : PointerFields[i] = f
         THEN f \in notnull
         ELSE KbdUsMaruska[f]] :
        notnull \in SUBSET {PointerFields[i] : i \in 1 .. Len(PointerFields)}}

HeadersOfFlags ==
    {[KbdUsMaruska EXCEPT !.fLocaleFlags = MAKELONG(lo, hi)] :
        lo \in 0 .. (Pow2(LocaleBits) - 1), hi \in {0, 1, 2}}

HeadersOfArrays ==
    {[KbdUsMaruska EXCEPT !.pusVSCtoVK = a[1], !.bMaxVSCtoVK = a[2],
                          !.pLigature = a[3], !.nLgMax = a[4], !.cbLgEntry = a[5]] :
        a \in BOOLEAN \X (0 .. MaxVscCount) \X BOOLEAN \X (0 .. MaxSlots)
              \X ({0} \cup {SizeofLigature(n) : n \in 0 .. MaxSlots})}

TypeValues == {0, 1, 4, 47, 48, 49}

HeadersOfTypes ==
    {[KbdUsMaruska EXCEPT !.dwType = t[1], !.dwSubType = t[2]] :
        t \in TypeValues \X TypeValues}

Headers == HeadersOfPointers \cup HeadersOfFlags \cup HeadersOfArrays \cup HeadersOfTypes

\* Option -t: not given (0), given, given with a value that is not positive.
OptKbdTypes == {-1, 0, 7}

\* The declaration generated for the field f.
Declaration(f) ==
    [name  |-> DeclName[f],
     count |-> IF f = "pusVSCtoVK" THEN tables.bMaxVSCtoVK
               ELSE IF f = "pLigature" THEN tables.nLgMax
               ELSE 0,
     refs  |-> <<>>]

\* At most MaxDescs descriptors stand before the last, null one.
MaxDescs == 2

\* A descriptor of the VK_TO_WCHAR_TABLE array: pVkToWchars is null or
\* not, nModifications.
NullDescriptor == [ptr |-> FALSE, n |-> 0]

Descriptors == {NullDescriptor} \cup [ptr : {TRUE}, n : 1 .. MaxSlots]

\* The arrays pVkToWcharTable can point to: the last descriptor is null.
WTables ==
    {w \in UNION {[1 .. k -> Descriptors] : k \in 1 .. (MaxDescs + 1)} :
        w[Len(w)] = NullDescriptor}

\* vk_to_wchar of kbdusmaruska.c, cut down to its last two descriptors and
\* the null one.
WTableOfMaruska ==
    <<[ptr |-> TRUE, n |-> 2], [ptr |-> TRUE, n |-> 1], NullDescriptor>>

\* for (; vtwc->pVkToWchars != nullptr; vtwc++): the descriptors the loop
\* of genVkToWchar visits.
RECURSIVE Visited(_)
Visited(w) ==
    IF w = <<>> \/ ~Head(w).ptr THEN <<>>
    ELSE <<Head(w)>> \o Visited(Tail(w))

\* Format(L"vk_to_wchar%d", vtwc->nModifications)
SubName(n) == "vk_to_wchar" \o ToString(n)

\* genVkToWchar: one declaration for each descriptor visited, written by
\* genSubVkToWchar inside the loop, then the table of tables, one row for
\* each of them.
VkToWcharDeclarations ==
    LET visited == Visited(wtable) IN
    [i \in 1 .. Len(visited) |->
        [name |-> SubName(visited[i].n), count |-> visited[i].n, refs |-> <<>>]]
    \o <<[name  |-> "vk_to_wchar", count |-> 0,
          refs  |-> [i \in 1 .. Len(visited) |-> SubName(visited[i].n)]]>>

\* genCharModifiers: vk_to_bits if pVkToBit is not null, then the
\* MODIFIERS structure with .pVkToBit = vk_to_bits or NULL.
CharModifiersDeclarations ==
    (IF mods_vk_to_bit THEN <<[name |-> "vk_to_bits", count |-> 0, refs |-> <<>>]>>
     ELSE <<>>)
    \o <<[name  |-> "char_modifiers", count |-> 0,
          refs  |-> IF mods_vk_to_bit THEN <<"vk_to_bits">> ELSE <<"NULL">>]>>

\* What the call made for the field f writes.
Declarations(f) ==
    IF f = "pCharModifiers" THEN CharModifiersDeclarations
    ELSE IF f = "pVkToWcharTable" THEN VkToWcharDeclarations
    ELSE <<Declaration(f)>>

\* The names of a sequence of declarations.
NamesOf(decls) == [i \in 1 .. Len(decls) |-> decls[i].name]

\* const int kbd_type = ...
KbdType ==
    IF opt_kbd_type > 0 THEN opt_kbd_type
    ELSE IF tables.dwType > 0 /\ tables.dwType < 48 THEN tables.dwType
    ELSE 4

\* The declarations the literal of kbd_tables names, in the order of its
\* fields.
RootReferences ==
    LET Named(f) == IF tables[f] THEN <<DeclName[f]>> ELSE <<>> IN
    Named("pCharModifiers") \o Named("pVkToWcharTable") \o Named("pDeadKey")
    \o Named("pKeyNames") \o Named("pKeyNamesExt") \o Named("pKeyNamesDead")
    \o Named("pusVSCtoVK") \o Named("pusVSCtoVK") \o Named("pVSCtoVK_E0")
    \o Named("pVSCtoVK_E1") \o Named("pLigature") \o Named("pLigature")

\* static KBDTABLES kbd_tables = { ... }, field by field.
RootLiteral ==
    [pCharModifiers  |-> pointer(tables.pCharModifiers, <<"&", "char_modifiers">>),
     pVkToWcharTable |-> pointer(tables.pVkToWcharTable, <<"vk_to_wchar">>),
     pDeadKey        |-> pointer(tables.pDeadKey, <<"dead_keys">>),
     pKeyNames       |-> pointer(tables.pKeyNames, <<"key_names">>),
     pKeyNamesExt    |-> pointer(tables.pKeyNamesExt, <<"key_names_ext">>),
     pKeyNamesDead   |-> pointer(tables.pKeyNamesDead, <<"key_names_dead">>),
     pusVSCtoVK      |-> pointer(tables.pusVSCtoVK, <<"scancode_to_vk">>),
     bMaxVSCtoVK     |-> IF ~tables.pusVSCtoVK THEN <<"0">>
                         ELSE <<"ARRAYSIZE", "(", "scancode_to_vk", ")">>,
     pVSCtoVK_E0     |-> pointer(tables.pVSCtoVK_E0, <<"scancode_to_vk_e0">>),
     pVSCtoVK_E1     |-> pointer(tables.pVSCtoVK_E1, <<"scancode_to_vk_e1">>),
     fLocaleFlags    |-> localeFlags(tables.fLocaleFlags),
     nLgMax          |-> FormatDecimal(tables.nLgMax),
     cbLgEntry       |-> IF ~tables.pLigature THEN <<"0">>
                         ELSE <<"sizeof", "(", "ligatures", "[0]", ")">>,
     pLigature       |-> pointer(tables.pLigature, <<"(PLIGATURE1)", "ligatures">>),
     dwType          |-> FormatDecimal(tables.dwType),
     dwSubType       |-> FormatDecimal(tables.dwSubType)]

InitGenerate ==
    /\ tables \in Headers
    /\ opt_kbd_type \in OptKbdTypes
    /\ num_only \in BOOLEAN
    /\ call = NoCall
    /\ ret = <<>>
    /\ descs = <<>>
    /\ gpc = At("start", 0)
    /\ generated = <<>>
    /\ nullreads = {}
    /\ kbd_type = 0
    /\ root = <<>>
    /\ wtable = WTableOfMaruska
    /\ mods_vk_to_bit = TRUE
    /\ hexa_dump = FALSE
    /\ pushed = <<>>
    /\ sorts = 0
    /\ NoExtents
    /\ NoWalk
    /\ NoMain
    /\ NoDump

\* The head of generate(): kbd_type is worked out and written.
GenerateBegin ==
    /\ gpc = At("start", 0)
    /\ kbd_type' = KbdType
    /\ gpc' = At("field", 1)
    /\ UNCHANGED <<tables, opt_kbd_type, generated, nullreads, root, wtable,
                   mods_vk_to_bit, hexa_dump, pushed, sorts, fmtVars, notGenVars>>

\* AfterField going from the last field to the dump, past the main table.
AfterFieldToDump(i) ==
    IF i < Len(PointerFields) THEN At("field", i + 1) ELSE At("dump", 0)

\* Where generate() goes on after the field at index i: the next field, or
\* the main table after the last one.
AfterField(i) ==
    IF i < Len(PointerFields) THEN At("field", i + 1) ELSE At("root", 0)

\* if (tables.<field> != nullptr) { gen...(tables.<field>, name); }
\* genVkToWchar is handed *tables.pCharModifiers whether that pointer is
\* null or not; what follows a null one is not defined: the process ends
\* there or goes on.
GenField ==
    /\ gpc.at = "field"
    /\ LET f == PointerFields[gpc.i]
           next == AfterField(gpc.i)
       IN
       IF ~tables[f]
       THEN /\ gpc' = next
            /\ UNCHANGED <<generated, nullreads, pushed>>
       ELSE IF f = "pVkToWcharTable" /\ ~tables.pCharModifiers
       THEN /\ nullreads' = nullreads \cup {"pCharModifiers"}
            /\ \/ gpc' = At("crashed", gpc.i) /\ UNCHANGED <<generated, pushed>>
               \/ /\ gpc' = next
                  /\ generated' = generated \o Declarations(f)
                  /\ pushed' = pushed \o NamesOf(Declarations(f))
       ELSE /\ gpc' = next
            /\ generated' = generated \o Declarations(f)
            /\ pushed' = pushed \o NamesOf(Declarations(f))
            /\ UNCHANGED nullreads
    /\ UNCHANGED <<tables, opt_kbd_type, kbd_type, root, wtable, mods_vk_to_bit,
                   hexa_dump, sorts, fmtVars, notGenVars>>

\* Generate main table.
EmitRoot ==
    /\ gpc = At("root", 0)
    /\ root' = RootLiteral
    /\ pushed' = Append(pushed, "kbd_tables")
    /\ generated' = generated \o
           <<[name |-> "kbd_tables", count |-> 0, refs |-> RootReferences],
             [name |-> "KbdLayerDescriptor", count |-> 0, refs |-> <<"kbd_tables">>]>>
    /\ gpc' = IF hexa_dump THEN At("dump", 0) ELSE At("done", 0)
    /\ UNCHANGED <<tables, opt_kbd_type, nullreads, kbd_type, wtable, mods_vk_to_bit,
                   hexa_dump, sorts, fmtVars, notGenVars>>

NextGenerate == GenerateBegin \/ GenField \/ EmitRoot

SpecGenerate == InitGenerate /\ [][NextGenerate]_vars

\* The header differs from that of kbdusmaruska.c in its first two
\* pointers at most.
OtherPointersOfMaruska(t) ==
    \A i \in 3 .. Len(PointerFields) : t[PointerFields[i]] = KbdUsMaruska[PointerFields[i]]

\* generate() on every combination of null and non-null pointers, with and
\* without the dump; on every array of descriptors where the other tables
\* are those of kbdusmaruska.c.
InitEmit ==
    /\ tables \in HeadersOfPointers
    /\ wtable \in (IF ~tables.pVkToWcharTable THEN {<<>>}
                   ELSE IF OtherPointersOfMaruska(tables) THEN WTables
                   ELSE {WTableOfMaruska})
    /\ mods_vk_to_bit \in (IF tables.pCharModifiers THEN BOOLEAN ELSE {FALSE})
    /\ hexa_dump \in BOOLEAN
    /\ opt_kbd_type = 0
    /\ num_only = FALSE
    /\ call = NoCall
    /\ ret = <<>>
    /\ descs = <<>>
    /\ gpc = At("start", 0)
    /\ generated = <<>>
    /\ nullreads = {}
    /\ kbd_type = 0
    /\ root = <<>>
    /\ pushed = <<>>
    /\ sorts = 0
    /\ NoExtents
    /\ NoWalk
    /\ NoMain
    /\ NoDump

\* if (_opt.hexa_dump) genHexaDump(), which calls sortDataStructures().
GenDump ==
    /\ gpc = At("dump", 0)
    /\ sorts' = sorts + 1
    /\ gpc' = At("done", 0)
    /\ UNCHANGED <<tables, opt_kbd_type, generated, nullreads, kbd_type, root, wtable,
                   mods_vk_to_bit, hexa_dump, pushed, fmtVars, notGenVars>>

NextEmit == GenerateBegin \/ GenField \/ EmitRoot \/ GenDump

SpecEmit == InitEmit /\ [][NextEmit]_vars

-----------------------------------------------------------------------------
(* Properties of generate(): the value of what it writes, read as C. *)

RECURSIVE DecimalValue(_)
DecimalValue(digits) ==
    IF digits = <<>> THEN 0
    ELSE 10 * DecimalValue(SubSeq(digits, 1, Len(digits) - 1))
         + HexDigitValue(digits[Len(digits)])

\* The value of an integer literal of C: hexadecimal after 0x, else decimal.
NumberValue(text) ==
    IF Len(text) >= 3 /\ text[1] = "0" /\ text[2] = "x"
    THEN HexValue(SubSeq(text, 3, Len(text)))
    ELSE DecimalValue(text)

\* The value of one term: a name of the symbol table or a literal.
TermValue(term, symbols) ==
    IF Len(term) = 1 /\ \E k \in DOMAIN symbols : symbols[k] = term[1]
    THEN CHOOSE k \in DOMAIN symbols : symbols[k] = term[1]
    ELSE NumberValue(term)

\* The terms of a text: what the separator sep separates.
RECURSIVE TermsOf(_, _)
TermsOf(text, sep) ==
    LET seps == {i \in 1 .. Len(text) : text[i] = sep} IN
    IF seps = {} THEN <<text>>
    ELSE LET first == CHOOSE i \in seps : \A j \in seps : i <= j IN
         <<SubSeq(text, 1, first - 1)>> \o TermsOf(SubSeq(text, first + 1, Len(text)), sep)

\* The value of term | term | ...
RECURSIVE OrOfTerms(_, _)
OrOfTerms(terms, symbols) ==
    IF terms = <<>> THEN 0
    ELSE BitOr(TermValue(Head(terms), symbols), OrOfTerms(Tail(terms), symbols))

OrValue(text, symbols) == OrOfTerms(TermsOf(text, " | "), symbols)

\* The value of the text of fLocaleFlags: MAKELONG(lo, hi) or a literal.
LocaleFlagsValue(text) ==
    IF text[1] = "MAKELONG"
    THEN LET args == TermsOf(SubSeq(text, 3, Len(text) - 1), ", ") IN
         MAKELONG(OrValue(args[1], LocaleFlagSymbols), OrValue(args[2], VersionSymbols))
    ELSE NumberValue(text)

\* The declaration of that name among those written.
DeclarationOf(name) ==
    generated[CHOOSE i \in 1 .. Len(generated) : generated[i].name = name]

\* ARRAYSIZE(scancode_to_vk), sizeof(ligatures[0]) or a literal.
CountValue(text) ==
    IF text[1] = "ARRAYSIZE" THEN DeclarationOf(text[3]).count
    ELSE IF text[1] = "sizeof" THEN SizeofLigature(DeclarationOf(text[3]).count)
    ELSE NumberValue(text)

\* C12: the scalar fields of the root literal, read as C against the
\* declarations written before it, have the values of the header.
C12_RootScalarsRoundTrip ==
    gpc.at = "done" =>
        /\ CountValue(root.bMaxVSCtoVK) = tables.bMaxVSCtoVK
        /\ LocaleFlagsValue(root.fLocaleFlags) = tables.fLocaleFlags
        /\ NumberValue(root.nLgMax) = tables.nLgMax
        /\ CountValue(root.cbLgEntry) = tables.cbLgEntry
        /\ NumberValue(root.dwType) = tables.dwType
        /\ NumberValue(root.dwSubType) = tables.dwSubType

\* C13: whatever pointer fields are null, generate() comes to its end
\* without reading through a null field, a null field is written as NULL
\* in the root literal and nothing is generated for it.
C13_NullFieldsHandled ==
    /\ gpc.at # "crashed"
    /\ nullreads = {}
    /\ gpc.at = "done" =>
           \A i \in 1 .. Len(PointerFields) :
               LET f == PointerFields[i] IN
               ~tables[f] =>
                   /\ root[f] = <<"NULL">>
                   /\ \A j \in 1 .. Len(generated) : generated[j].name # DeclName[f]

\* A type or subtype is plausible.
Plausible(t) == 0 < t /\ t < 48

\* C15: without a positive -t option the type written is dwType if it is
\* plausible and 4 if not, a positive -t option is written as it is, and
\* the subtype goes by the same rule: a dwSubType that is plausible is
\* written as it is, one beyond the plausible range is replaced.
C15_TypeAndSubtypeRule ==
    gpc.at = "done" =>
        /\ kbd_type = IF opt_kbd_type > 0 THEN opt_kbd_type
                      ELSE IF Plausible(tables.dwType) THEN tables.dwType ELSE 4
        /\ Plausible(tables.dwSubType) => NumberValue(root.dwSubType) = tables.dwSubType
        /\ tables.dwSubType >= 48 => NumberValue(root.dwSubType) # tables.dwSubType

-----------------------------------------------------------------------------
(* wmain: the DLL is loaded, its entry point is found and called, the      *)
(* output is opened and one of the two generators runs.  Options::fatal,   *)
(* Options::setOutput and Options::exit are not part of the sources at     *)
(* hand: fatal() writes one message and ends the process with a status     *)
(* that is not zero, setOutput() opens the output or is fatal, exit()      *)
(* ends the process with the status it is given.                           *)

\* What a run finds.
Environments ==
    [gen_resources : BOOLEAN,   \* option -r
     dll           : BOOLEAN,   \* LoadLibraryW gives a module
     entry         : BOOLEAN,   \* GetProcAddress gives the entry point
     root          : BOOLEAN,   \* the entry point gives tables that are not null
     out_ok        : BOOLEAN,   \* the output can be opened
     header_ok     : BOOLEAN,   \* generate() meets nothing undefined in the tables
     info_ok       : BOOLEAN,   \* info.load(hmod)
     lang_known    : BOOLEAN,   \* info.BaseLanguage is not empty
     text_known    : BOOLEAN,   \* info.LayoutText is not empty
     ids_found     : BOOLEAN]   \* the registry has an entry for the DLL

\* if (dll == nullptr) fatal
AfterLoadLibrary(dll) == IF dll THEN "entry" ELSE "fatal"

\* if (proc_addr == nullptr) fatal
AfterGetProcAddress(proc_addr) == IF proc_addr THEN "call" ELSE "fatal"

\* AfterEntryPoint without the test of the tables.
AfterEntryPointUnchecked(root_tables) == "output"

\* if (tables == nullptr) fatal
AfterEntryPoint(root_tables) == IF root_tables THEN "output" ELSE "fatal"

\* opt.setOutput(opt.output), then the choice of the generator.
AfterSetOutput(opened, gen_resources) ==
    IF ~opened THEN "fatal"
    ELSE IF gen_resources THEN "resources" ELSE "generate"

\* GenerateResourceFile up to its first output: the two calls of fatal.
AfterResourceLookup(e) ==
    IF ~e.info_ok THEN "fatal"
    ELSE IF (~e.text_known \/ ~e.lang_known) /\ ~e.lang_known /\ ~e.ids_found THEN "fatal"
    ELSE "exit"

\* opt.fatal(message): one message, the process ends, the status is not zero.
Fatal ==
    /\ fatal_msgs' = fatal_msgs + 1
    /\ exit_status' = 1
    /\ mpc' = "exited"

\* The run goes on at the place, or ends in fatal().
GoOn(place) ==
    IF place = "fatal" THEN Fatal
    ELSE mpc' = place /\ UNCHANGED <<exit_status, fatal_msgs>>

InitMain ==
    /\ env \in Environments
    /\ mpc = "load"
    /\ exit_status = -1
    /\ out_open = FALSE
    /\ out_text = FALSE
    /\ fatal_msgs = 0
    /\ generator_run = "no"
    /\ NoFormat
    /\ NoExtents
    /\ NoWalk
    /\ NoGenerate
    /\ NoDump

LoadLibrary ==
    /\ mpc = "load"
    /\ GoOn(AfterLoadLibrary(env.dll))
    /\ UNCHANGED <<env, out_open, out_text, generator_run, notMainVars>>

GetProcAddress ==
    /\ mpc = "entry"
    /\ GoOn(AfterGetProcAddress(env.entry))
    /\ UNCHANGED <<env, out_open, out_text, generator_run, notMainVars>>

CallEntryPoint ==
    /\ mpc = "call"
    /\ GoOn(AfterEntryPoint(env.root))
    /\ UNCHANGED <<env, out_open, out_text, generator_run, notMainVars>>

SetOutput ==
    /\ mpc = "output"
    /\ out_open' = env.out_ok
    /\ GoOn(AfterSetOutput(env.out_ok, env.gen_resources))
    /\ UNCHANGED <<env, out_text, generator_run, notMainVars>>

\* SourceGenerator gen(opt); gen.generate(*tables): text is written; with
\* tables that are null or hold something undefined the process may end
\* inside generate().
RunGenerate ==
    /\ mpc = "generate"
    /\ out_text' = TRUE
    /\ \/ /\ generator_run' = "done"
          /\ mpc' = "exit"
          /\ UNCHANGED exit_status
       \/ /\ ~env.root \/ ~env.header_ok
          /\ generator_run' = "entered"
          /\ mpc' = "crashed"
          /\ exit_status' = 3
    /\ UNCHANGED <<env, out_open, fatal_msgs, notMainVars>>

\* GenerateResourceFile(opt, dll)
RunResources ==
    /\ mpc = "resources"
    /\ GoOn(AfterResourceLookup(env))
    /\ generator_run' = IF AfterResourceLookup(env) = "fatal" THEN "entered" ELSE "done"
    /\ out_text' = (AfterResourceLookup(env) # "fatal")
    /\ UNCHANGED <<env, out_open, notMainVars>>

\* opt.exit(EXIT_SUCCESS)
ExitSuccess ==
    /\ mpc = "exit"
    /\ exit_status' = 0
    /\ mpc' = "exited"
    /\ UNCHANGED <<env, out_open, out_text, fatal_msgs, generator_run, notMainVars>>

NextMain ==
    \/ LoadLibrary
    \/ GetProcAddress
    \/ CallEntryPoint
    \/ SetOutput
    \/ RunGenerate
    \/ RunResources
    \/ ExitSuccess

SpecMain == InitMain /\ [][NextMain]_vars

\* The DLL cannot be used: not loaded, no entry point, or null tables.
ResolutionFails == ~env.dll \/ ~env.entry \/ ~env.root

\* C14: when the DLL cannot be loaded, has no entry point or gives null
\* tables, the run ends in one fatal failure with a status that is not
\* zero, the output is never opened and no generator is entered; in every
\* run fatal() is never called once text has been written; and the status
\* is 0 only when a generator has run to its end.
C14_FatalBeforeOutput ==
    /\ ResolutionFails =>
           /\ ~out_open
           /\ generator_run = "no"
           /\ mpc = "exited" => (exit_status = 1 /\ fatal_msgs = 1)
           /\ mpc \in {"load", "entry", "call", "exited"}
    /\ fatal_msgs > 0 => (~out_text /\ fatal_msgs = 1 /\ exit_status # 0)
    /\ exit_status = 0 => (generator_run = "done" /\ out_text /\ fatal_msgs = 0)

\* C14 witness: the entry point gave null tables and the run has ended.
C14_NullRootFatal ==
    /\ env.dll /\ env.entry /\ ~env.root
    /\ mpc = "exited"
    /\ exit_status = 1

-----------------------------------------------------------------------------
(* genHexaDump: the list is reconciled, the range of the dump is widened   *)
(* to page boundaries and the sections are dumped in order.                *)

\* The page size of the system (GetSystemInfo), in bytes.
PageSize == 2
\* At most DumpExtents data structures are recorded before the dump.
DumpExtents == 2

\* uintptr_t(address): the image is loaded at image_base.
Absolute(base, d) == DataStructure(d.name, base + d.address, d.size)

\* first_address - first_address % page_size
FirstPage(first_address, page_size) == first_address - (first_address % page_size)

\* last_address + ((page_size - (last_address % page_size)) % page_size)
LastPage(last_address, page_size) ==
    last_address + ((page_size - (last_address % page_size)) % page_size)

\* The lists of at most n recorded data structures, none empty.
RecordedLists(n) == UNION {[1 .. k -> Recordable] : k \in 1 .. n}

\* The sections genHexaDump dumps for the reconciled list at addresses
\* counted from 0: the start of the first page if it is before the first
\* data structure, every data structure, the end of the last page if it is
\* after the end of the last data structure of the list.
DumpSections(list, page_size) ==
    LET first_address == list[1].address
        last_address  == End(list[Len(list)])
        first         == FirstPage(first_address, page_size)
        last          == LastPage(last_address, page_size)
    IN  (IF first < first_address
           THEN <<DataStructure("Start of memory page before first data structure",
                                first, first_address - first)>>
           ELSE <<>>)
        \o list
        \o (IF last_address < last
              THEN <<DataStructure("End of memory page after last data structure",
                                   last_address, last - last_address)>>
              ELSE <<>>)

InitDump ==
    /\ mem \in [Addresses -> ByteValues]
    /\ alldata \in RecordedLists(DumpExtents)
    /\ image_base \in 0 .. (PageSize - 1)
    /\ pc = "dump"
    /\ previous = 0
    /\ current = 0
    /\ recorded = <<>>
    /\ first_page = 0
    /\ last_page = 0
    /\ sections = <<>>
    /\ NoFormat
    /\ NoWalk
    /\ NoGenerate
    /\ NoMain

\* genHexaDump()
GenHexaDump ==
    /\ pc = "dump"
    /\ recorded' = alldata
    /\ alldata' = sortDataStructures(alldata)
    /\ LET absolute == [i \in 1 .. Len(alldata') |-> Absolute(image_base, alldata'[i])]
       IN  /\ first_page' = FirstPage(absolute[1].address, PageSize)
           /\ last_page' = LastPage(End(absolute[Len(absolute)]), PageSize)
           /\ sections' = DumpSections(absolute, PageSize)
    /\ pc' = "dumped"
    /\ UNCHANGED <<mem, previous, current, image_base, fmtVars, walkVars, genVars, mainVars>>

NextDump == GenHexaDump

SpecDump == InitDump /\ [][NextDump]_vars

\* The reconciled extents at their absolute addresses.
Reconciled == {Absolute(image_base, alldata[i]) : i \in 1 .. Len(alldata)}

\* The dumped sections that are not reconciled extents, by place.
LeadingMargin == {i \in {1} : sections[i].name = "Start of memory page before first data structure"}

TrailingMargin ==
    {i \in {Len(sections)} : sections[i].name = "End of memory page after last data structure"}

\* C16: the dumped range [first_page, last_page) starts and ends on page
\* boundaries, first_page is at most the lowest extent start with less than
\* one page in between, last_page is at least the end of every reconciled
\* extent, and a leading (trailing) margin section is dumped exactly when
\* the range starts before the lowest start (ends after the highest end).
C16_DumpRange ==
    pc = "dumped" =>
        LET lowest  == CHOOSE a \in {d.address : d \in Reconciled} :
                            \A d \in Reconciled : a <= d.address
            highest == CHOOSE e \in {End(d) : d \in Reconciled} :
                            \A d \in Reconciled : End(d) <= e
        IN  /\ first_page % PageSize = 0
            /\ last_page % PageSize = 0
            /\ first_page <= lowest
            /\ lowest - first_page < PageSize
            /\ \A d \in Reconciled : End(d) <= last_page
            /\ (LeadingMargin # {}) <=> (first_page < lowest)
            /\ (TrailingMargin # {}) <=> (highest < last_page)

-----------------------------------------------------------------------------
(* Properties of bitMask and attributes: the bits a result accounts for. *)

\* The keys that match when each entry is tested, in the order given,
\* against what is left of the value once the bits of the entries matched
\* before it are cleared.
RECURSIVE MatchedOnRemaining(_, _)
MatchedOnRemaining(order, remaining) ==
    IF order = <<>> THEN {}
    ELSE LET k == order[1]
             rest == SubSeq(order, 2, Len(order))
         IN IF k # 0 /\ BitAnd(remaining, k) = k
              THEN {k} \cup MatchedOnRemaining(rest, BitClear(remaining, k))
              ELSE MatchedOnRemaining(rest, remaining)

\* The keys whose names stand in the text.
NamedKeys(symbols, text) == {k \in DOMAIN symbols : symbols[k] \in TokensOf(text)}

\* C17: in symbolic mode bitMask tests each entry, in the order of the
\* table, against the value that remains once the matched bits are cleared:
\* the names in the result are those of the entries matched that way, and
\* no two of them share a bit.
C17_NoBitAccountedTwice ==
    (SymbolicBitMaskCall /\ call.value # 0) =>
        LET named == NamedKeys(call.symbols, ret) IN
        /\ named = MatchedOnRemaining(MapOrder(DOMAIN call.symbols), call.value)
        /\ \A k1, k2 \in named : k1 # k2 => BitAnd(k1, k2) = 0

-----------------------------------------------------------------------------
(* SourceGenerator::attributes: a symbol for the base value and a mask of  *)
(* symbols for the attribute bits.                                         *)

\* all_attributes |= sym.first, for every entry of the table
RECURSIVE AllAttributesLoop(_, _)
AllAttributesLoop(order, all_attributes) ==
    IF order = <<>> THEN all_attributes
    ELSE AllAttributesLoop(Tail(order), BitOr(all_attributes, Head(order)))

AllAttributes(attrs) == AllAttributesLoop(MapOrder(DOMAIN attrs), 0)

attributes(symbols, attrs, value, hex_digits) ==
    IF ~num_only
    THEN LET all_attributes == AllAttributes(attrs)
             str == symbol(symbols, BitClear(value, all_attributes), hex_digits)
         IN IF BitAnd(value, all_attributes) # 0
              THEN str \o <<" | ">> \o bitMask(attrs, BitAnd(value, all_attributes), hex_digits)
              ELSE str
    ELSE integer(value, hex_digits)

\* The tables of base values of the callers: every value has a name
\* (vk_symbols), or none has.
BaseTables == {SymTable({}), SymTable(Values)}

InitAttributes ==
    /\ num_only \in BOOLEAN
    /\ call = NoCall
    /\ ret = <<>>
    /\ descs = <<>>
    /\ NoExtents
    /\ NoWalk
    /\ NoGenerate
    /\ NoMain
    /\ NoDump

CallAttributes ==
    /\ call = NoCall
    /\ \E symbols \in BaseTables, keys \in KeySets, value \in Values,
          hex_digits \in HexDigitsArgs :
          /\ call' = [op |-> "attributes", symbols |-> symbols, attributes |-> SymTable(keys),
                      value |-> value, hex_digits |-> hex_digits]
          /\ ret' = attributes(symbols, SymTable(keys), value, hex_digits)
    /\ UNCHANGED <<num_only, descs, notFmtVars>>

NextAttributes == CallAttributes

SpecAttributes == InitAttributes /\ [][NextAttributes]_vars

\* The bits of the value that some key of the table covers.
MaskedBits(symbols, value) == value - UncoveredBits(DOMAIN symbols, value)

\* C18: with M the OR of all attribute keys, attributes returns
\* symbol(base, value AND NOT M) alone when (value AND M) = 0 and
\* symbol(base, value AND NOT M), " | ", bitMask(attr, value AND M)
\* otherwise; the bitwise OR of the values of the terms of the result is
\* the value.
C18_AttributesDenoteValue ==
    call.op = "attributes" =>
        LET masked == MaskedBits(call.attributes, call.value)
            base   == symbol(call.symbols, call.value - masked, call.hex_digits)
        IN  /\ ~num_only =>
                  ret = IF masked = 0 THEN base
                        ELSE base \o <<" | ">>
                                  \o bitMask(call.attributes, masked, call.hex_digits)
            /\ OrValue(ret, SymTable(Values)) = call.value

-----------------------------------------------------------------------------
(* Properties of the order sortDataStructures works on. *)

\* The bijections of 1 .. n.
Bijections(n) == {p \in [1 .. n -> 1 .. n] : \A i, j \in 1 .. n : i # j => p[i] # p[j]}

\* out is list in ascending order of address, elements of equal address in
\* the order they have in list.
StableSorted(out, list) ==
    /\ Len(out) = Len(list)
    /\ \E p \in Bijections(Len(list)) :
          /\ \A i \in 1 .. Len(list) : out[i] = list[p[i]]
          /\ \A i, j \in 1 .. Len(list) :
                i < j => \/ list[p[i]].address < list[p[j]].address
                         \/ /\ list[p[i]].address = list[p[j]].address
                            /\ p[i] < p[j]

\* The list has just been sorted: the loop has not changed it yet.
JustSorted == pc = "scan" /\ previous = 1 /\ current = 2 /\ Len(alldata) = Len(recorded)

\* C19: reconciliation first puts the recorded extents in ascending order
\* of start address, extents of equal start keeping the order in which
\* they were recorded; the reconciled list is a function of the recorded
\* sequence and the bytes of the image.
C19_StableOrder ==
    /\ JustSorted => StableSorted(alldata, recorded)
    /\ pc = "sorted" => alldata = sortDataStructures(recorded)

\* C19 witness: three extents recorded out of order, two of them different
\* and of equal start, have just been sorted.
C19_EqualStartsSorted ==
    /\ JustSorted
    /\ Len(recorded) = 3
    /\ recorded[1].address = recorded[2].address
    /\ recorded[1] # recorded[2]
    /\ recorded[3].address < recorded[1].address

\* The loop merges the pair it looks at: the list loses one element.
MergeTaken == AtPair /\ Len(alldata') = Len(alldata) - 1

\* C20: whenever the loop merges cur into prev the merged extent starts at
\* prev.start and ends at the larger of prev.end and cur.end, also when the
\* two overlap or cur lies inside prev; prev is never made shorter.
C20_MergeCoversBoth ==
    [][MergeTaken =>
          LET prev   == alldata[previous]
              cur    == alldata[current]
              merged == alldata'[previous]
          IN  /\ merged.address = prev.address
              /\ End(merged) = (IF End(prev) >= End(cur) THEN End(prev) ELSE End(cur))
              /\ merged.size >= prev.size
      ]_vars

-----------------------------------------------------------------------------
(* Properties of the extents sortDataStructures inserts and keeps. *)

\* The addresses of the bytes of an extent.
BytesOf(d) == d.address .. (End(d) - 1)

\* C21: every Padding or Unreferenced extent that reconciliation inserts
\* covers only bytes that belong to no recorded extent, also when an
\* earlier extent of another name reaches beyond the pair compared.
C21_SyntheticOutsideRecorded ==
    pc \in {"scan", "sorted"} =>
        \A i \in Synthetic(alldata) :
            \A j \in 1 .. Len(recorded) :
                BytesOf(alldata[i]) \cap BytesOf(recorded[j]) = {}

-----------------------------------------------------------------------------
(* Properties of the extent a walk records. *)

\* C22: a walk records one extent for the table it walked, named after the
\* table, from the table pointer to just after the sentinel record: its
\* length is (n + 1) * stride for n data records, the stride of a
\* VK_TO_WCHARSn or LIGATUREn table being the size that was given, and
\* record k is read at start + k * stride.
C22_WalkExtent ==
    /\ wpc = "walk" => (ptr = steps * WalkStride /\ wds = <<>>)
    /\ wpc \in {"walk", "done"} =>
          \A k \in 1 .. steps :
              /\ rows[k] = RowOfRecord(k - 1)
              /\ (k - 1) * WalkStride \in reads
    /\ wpc = "done" =>
          /\ steps * WalkStride \in reads
          /\ wds = [name |-> wkind, address |-> 0, size |-> (steps + 1) * WalkStride]

\* C22 witness: a VK_TO_WCHARS1 table whose size is more than its record,
\* one data record and the sentinel: the extent is two sizes long.
C22_PaddedRecordsExtent ==
    /\ wpc = "done"
    /\ wkind = "VK_TO_WCHARS"
    /\ wcount = 1
    /\ wsize = 4
    /\ steps = 1
    /\ wds.size = 8

-----------------------------------------------------------------------------
(* Properties of the order in which generate() writes. *)

\* The order of the declarations: modifiers, table of tables, dead keys,
\* key names, extended key names, dead-key names, scan codes, E0, E1,
\* ligatures, the root structure, the accessor function.
ProcessingOrder ==
    <<"char_modifiers", "vk_to_wchar", "dead_keys", "key_names", "key_names_ext",
      "key_names_dead", "scancode_to_vk", "scancode_to_vk_e0", "scancode_to_vk_e1",
      "ligatures", "kbd_tables", "KbdLayerDescriptor">>

Place(name) == CHOOSE i \in 1 .. Len(ProcessingOrder) : ProcessingOrder[i] = name

Ordered(name) == \E i \in 1 .. Len(ProcessingOrder) : ProcessingOrder[i] = name

\* The index of the declaration of that name, 0 if there is none.
Where(name) ==
    IF \E i \in 1 .. Len(generated) : generated[i].name = name
    THEN CHOOSE i \in 1 .. Len(generated) : generated[i].name = name
    ELSE 0

\* The number of descriptors before the first null one.
BeforeNull(w) ==
    CHOOSE m \in 0 .. Len(w) :
        /\ \A i \in 1 .. m : w[i].ptr
        /\ m < Len(w) => ~w[m + 1].ptr

\* The declarations of the sub-tables, by index.
SubTables == {i \in 1 .. Len(generated) : generated[i].count > 0
                                          /\ ~Ordered(generated[i].name)}

\* generate() has written the root structure.
RootWritten == gpc.at \in {"dump", "done"}

\* C23: the fields of the root header are processed in one order:
\* modifiers, the table of tables (one sub-table for each descriptor, in
\* the order of the array, up to the first descriptor with a null pointer),
\* dead keys, key names, extended key names, dead-key names, scan codes,
\* E0, E1, ligatures; the root structure and the accessor function are
\* written only after all of them.
C23_ProcessingOrder ==
    /\ \A i, j \in 1 .. Len(generated) :
          (i < j /\ Ordered(generated[i].name) /\ Ordered(generated[j].name))
              => Place(generated[i].name) < Place(generated[j].name)
    /\ Where("vk_to_wchar") # 0 =>
          LET k == Where("vk_to_wchar")
              m == BeforeNull(wtable)
          IN  /\ SubTables = (k - m) .. (k - 1)
              /\ \A i \in 1 .. m : generated[k - m + i - 1].count = wtable[i].n
    /\ Where("vk_to_wchar") = 0 => SubTables = {}
    /\ Where("kbd_tables") # 0 <=> RootWritten
    /\ RootWritten =>
          /\ \A i \in 1 .. Len(PointerFields) :
                tables[PointerFields[i]] <=> Where(DeclName[PointerFields[i]]) # 0
          /\ Where("kbd_tables") = Len(generated) - 1
          /\ Where("KbdLayerDescriptor") = Len(generated)

\* C23 witness: every pointer is set, two sub-tables, and the root
\* structure has been written.
C23_EverythingWritten ==
    /\ gpc.at = "done"
    /\ \A i \in 1 .. Len(PointerFields) : tables[PointerFields[i]]
    /\ Len(wtable) = 3 /\ wtable[1].ptr /\ wtable[2].ptr /\ wtable[1].n # wtable[2].n
    /\ Len(generated) = 15

\* The declaration at index i names only declarations written before it.
RefersBack(i) ==
    \A r \in 1 .. Len(generated[i].refs) :
        generated[i].refs[r] # "NULL" =>
            \E j \in 1 .. (i - 1) : generated[j].name = generated[i].refs[r]

\* C24: a field names a sub-structure exactly when the declaration of that
\* sub-structure was written earlier in the same output, and is NULL
\* exactly when the pointer is null: the fields of the root literal,
\* pVkToBit of the modifiers, the rows of the table of tables; no
\* declaration names one that is not declared or is declared later.
C24_NamesAreDeclared ==
    /\ \A i \in 1 .. Len(generated) : RefersBack(i)
    /\ Where("char_modifiers") # 0 =>
          LET refs == generated[Where("char_modifiers")].refs IN
          /\ refs = <<"vk_to_bits">> <=> Where("vk_to_bits") # 0
          /\ refs = <<"NULL">> <=> ~mods_vk_to_bit
          /\ refs \in {<<"vk_to_bits">>, <<"NULL">>}
    /\ Where("vk_to_wchar") # 0 =>
          LET refs == generated[Where("vk_to_wchar")].refs IN
          /\ Len(refs) = BeforeNull(wtable)
          /\ \A r \in 1 .. Len(refs) : refs[r] # "NULL"
    /\ RootWritten =>
          \A i \in 1 .. Len(PointerFields) :
              LET f == PointerFields[i] IN
              /\ DeclName[f] \in TokensOf(root[f]) <=> Where(DeclName[f]) # 0
              /\ root[f] = <<"NULL">> <=> ~tables[f]
              /\ DeclName[f] \in TokensOf(root[f]) \/ root[f] = <<"NULL">>

\* C24 witness: a root literal with null and named fields, after modifiers
\* without pVkToBit and a table of tables of two rows.
C24_NullAndNamedFields ==
    /\ gpc.at = "done"
    /\ tables.pCharModifiers /\ ~mods_vk_to_bit
    /\ tables.pVkToWcharTable /\ Len(generated[Where("vk_to_wchar")].refs) = 2
    /\ root.pDeadKey = <<"NULL">>
    /\ root.pKeyNames = <<"key_names">>

\* C25: sortDataStructures runs at most once in a pass, only after every
\* table has been walked and the extent of the root structure has been
\* recorded; the list is not empty when it runs and no extent is recorded
\* after it has run.
C25_ReconcileOnceAtEnd ==
    [][/\ sorts' # sorts =>
            /\ sorts = 0 /\ sorts' = 1
            /\ pushed # <<>>
            /\ pushed[Len(pushed)] = "kbd_tables"
            /\ \A i \in 1 .. Len(PointerFields) :
                   tables[PointerFields[i]] =>
                       \E j \in 1 .. Len(pushed) : pushed[j] = DeclName[PointerFields[i]]
       /\ sorts > 0 => (pushed' = pushed /\ sorts' = sorts)
      ]_vars

\* C25 witness: the dump was asked for and the list of five extents or
\* more has been sorted.
C25_SortedAfterRoot ==
    /\ hexa_dump
    /\ sorts = 1
    /\ gpc.at = "done"
    /\ Len(pushed) >= 5

\* C26: the loop changes or removes an extent of the list only by a merge
\* of two extents of one name: when the two extents it looks at have
\* different names and touch or overlap, both stay as they are, nothing is
\* inserted between them and the loop moves on.
C26_OnlyMergesChange ==
    [][AtPair =>
          LET prev == alldata[previous]
              cur  == alldata[current]
              grow == Len(alldata') - Len(alldata)
          IN  /\ (prev.name # cur.name /\ End(prev) >= cur.address) =>
                     /\ alldata' = alldata
                     /\ previous' = current
                     /\ current' = current + 1
              /\ prev.name # cur.name =>
                     /\ grow \in {0, 1}
                     /\ \A i \in 1 .. Len(alldata) :
                            alldata'[IF i < current THEN i ELSE i + grow] = alldata[i]
              /\ prev.name = cur.name =>
                     \A i \in 1 .. Len(alldata) :
                         i \notin {previous, current} =>
                             alldata'[IF i < current THEN i ELSE i + grow] = alldata[i]
      ]_vars

\* C26 witness: the loop has moved past a first pair of extents of
\* different names that overlap.
C26_OverlapKept ==
    /\ pc = "scan"
    /\ previous = 2
    /\ current = 3
    /\ Len(alldata) = Len(recorded)
    /\ alldata[1].name # alldata[2].name
    /\ End(alldata[1]) > alldata[2].address
    /\ alldata[2].size > 0

\* C27: the declarations written in one pass have names that differ from
\* one another, also when two descriptors of the table of tables have the
\* same number of slots.
C27_DistinctNames ==
    nullreads = {} =>
        \A i, j \in 1 .. Len(generated) :
            i # j => generated[i].name # generated[j].name

-----------------------------------------------------------------------------
(* SourceGenerator::wstring: a string of WCHAR as a wide string literal. *)

\* A string has at most MaxStringLen characters before its final zero.
MaxStringLen == 2

\* const SymbolTable wchar_literals: WCHAR representation when inserted in
\* string literals.
wchar_literals ==
    (9 :> <<"\\", "t">>) @@
    (10 :> <<"\\", "n">>) @@
    (13 :> <<"\\", "r">>) @@
    (34 :> <<"\\", "\"">>) @@
    (92 :> <<"\\", "\\">>)

LowerDigitChars == <<"0", "1", "2", "3", "4", "5", "6", "7",
                     "8", "9", "a", "b", "c", "d", "e", "f">>

\* Format(L"\\x%04x", value), value below 0x10000
FormatEscape(value) ==
    <<"\\", "x",
      LowerDigitChars[((value \div 4096) % 16) + 1],
      LowerDigitChars[((value \div 256) % 16) + 1],
      LowerDigitChars[((value \div 16) % 16) + 1],
      LowerDigitChars[(value % 16) + 1]>>

\* The body of the for loop of wstring for one character.
wstringChar(c) ==
    IF c \in DOMAIN wchar_literals THEN wchar_literals[c]
    ELSE IF c >= 32 /\ c < 127 THEN <<Chr(c)>>
    ELSE FormatEscape(c)

RECURSIVE wstringLoop(_)
wstringLoop(text) ==
    IF text = <<>> THEN <<>>
    ELSE wstringChar(Head(text)) \o wstringLoop(Tail(text))

\* wstring(value); value is a null pointer or points to the characters
\* before a final zero.
wstring(value) ==
    IF value.null THEN <<"NULL">>
    ELSE <<"L", "\"">> \o wstringLoop(value.text) \o <<"\"">>

\* Characters of the strings: tab, the double quote, 9, F, G, a, e acute
\* and U+1234.
StringChars == {9, 34, 57, 70, 71, 97, 233, 4660}

NullString == [null |-> TRUE, text |-> <<>>]

StringOf(text) == [null |-> FALSE, text |-> text]

Strings ==
    {NullString} \cup
    {StringOf(t) : t \in UNION {[1 .. k -> StringChars] : k \in 0 .. MaxStringLen}}

InitString ==
    /\ num_only \in BOOLEAN
    /\ call = NoCall
    /\ ret = <<>>
    /\ descs = <<>>
    /\ NoExtents
    /\ NoWalk
    /\ NoGenerate
    /\ NoMain
    /\ NoDump

CallWstring ==
    /\ call = NoCall
    /\ \E value \in Strings :
          /\ call' = [op |-> "wstring", value |-> value]
          /\ ret' = wstring(value)
    /\ UNCHANGED <<num_only, descs, notFmtVars>>

NextString == CallWstring

SpecString == InitString /\ [][NextString]_vars

-----------------------------------------------------------------------------
(* Properties of wstring: the literal as a compiler of C reads it. *)

HexDigitChars == TokensOf(DigitChars) \cup TokensOf(LowerDigitChars)

\* The value of a hexadecimal digit of either case.
AnyHexDigitValue(c) ==
    IF c \in TokensOf(LowerDigitChars)
    THEN (CHOOSE i \in 1 .. 16 : LowerDigitChars[i] = c) - 1
    ELSE (CHOOSE i \in 1 .. 16 : DigitChars[i] = c) - 1

\* The number of hexadecimal digits of the text from index i on.
RECURSIVE HexRun(_, _)
HexRun(text, i) ==
    IF i <= Len(text) /\ text[i] \in HexDigitChars THEN 1 + HexRun(text, i + 1) ELSE 0

RECURSIVE HexRunValue(_, _, _)
HexRunValue(text, i, n) ==
    IF n = 0 THEN 0
    ELSE 16 * HexRunValue(text, i, n - 1) + AnyHexDigitValue(text[i + n - 1])

\* The character a simple escape denotes.
EscapeValue(c) ==
    CASE c = "t" -> 9 [] c = "n" -> 10 [] c = "r" -> 13
      [] c = "\"" -> 34 [] c = "\\" -> 92

\* The code of a character that stands for itself.
AsciiCode(c) == 31 + CHOOSE k \in 1 .. Len(Ascii) : Ascii[k] = c

\* The characters of the body of a string literal from index i up to the
\* closing quote; a \x escape takes every hexadecimal digit after it.
RECURSIVE ReadBody(_, _)
ReadBody(text, i) ==
    IF i > Len(text) \/ text[i] = "\"" THEN <<>>
    ELSE IF text[i] = "\\"
    THEN IF text[i + 1] = "x"
         THEN <<HexRunValue(text, i + 2, HexRun(text, i + 2))>>
              \o ReadBody(text, i + 2 + HexRun(text, i + 2))
         ELSE <<EscapeValue(text[i + 1])>> \o ReadBody(text, i + 2)
    ELSE <<AsciiCode(text[i])>> \o ReadBody(text, i + 1)

\* What the text denotes: NULL, or the wide string literal L"...".
ReadWideLiteral(text) ==
    IF text = <<"NULL">> THEN NullString ELSE StringOf(ReadBody(text, 3))

\* C29: the literal wstring makes for a string, read by the rules of C for
\* wide string literals, denotes the characters of the string, also when a
\* character written as \x and four digits is followed by a character
\* that is a hexadecimal digit.
C29_StringLiteralRoundTrip ==
    call.op = "wstring" => ReadWideLiteral(ret) = call.value

-----------------------------------------------------------------------------
(* SourceGenerator::genKeyNames: the array of names of dead keys, pointers *)
(* to strings up to a null pointer.                                        *)

\* At most MaxNames pointers stand before the last, null one.
MaxNames == 3

\* What a cell of the array points to: nothing, an empty string, a dead
\* character alone, a dead character and its name.
NameCells == {NullString, StringOf(<<>>), StringOf(<<233>>), StringOf(<<233, 71>>)}

\* The arrays pKeyNamesDead can point to: the last cell is null.
NameArrays ==
    {a \in UNION {[1 .. k -> NameCells] : k \in 1 .. (MaxNames + 1)} :
        a[Len(a)] = NullString}

\* for (; *names != nullptr; ++names): the indexes the loop visits.
RECURSIVE VisitedNames(_, _)
VisitedNames(a, i) ==
    IF i > Len(a) \/ a[i].null THEN <<>>
    ELSE <<i>> \o VisitedNames(a, i + 1)

\* The visited cells the body of the loop acts on: if (**names != 0).
RECURSIVE NamedCells(_)
NamedCells(indexes) ==
    IF indexes = <<>> THEN <<>>
    ELSE (IF tbl[Head(indexes)].text # <<>> THEN <<Head(indexes)>> ELSE <<>>)
         \o NamedCells(Tail(indexes))

\* grid.addLine({wstring(prefix), wstring(*names + 1) + ","})
NameLine(i) ==
    [cell   |-> i,
     prefix |-> wstring(StringOf(<<Head(tbl[i].text)>>)),
     rest   |-> wstring(StringOf(Tail(tbl[i].text)))]

\* DataStructure("Strings in " + name, *names, StringSize(*names))
StringExtent(i) == [name |-> "Strings in key_names_dead", cell |-> i]

InitKeyNames ==
    /\ tbl \in NameArrays
    /\ wkind = "DEADKEY_LPWSTR"
    /\ wcount = 0
    /\ wsize = 0
    /\ ptr = 1
    /\ rows = <<>>
    /\ reads = {}
    /\ steps = 0
    /\ wds = <<>>
    /\ wpc = "walk"
    /\ NoFormat
    /\ NoExtents
    /\ NoGenerate
    /\ NoMain
    /\ NoDump

\* genKeyNames(names, name): a line and a string extent for each cell the
\* loop acts on, then the extent of the array, which ends after the null
\* pointer.
GenKeyNames ==
    /\ wpc = "walk"
    /\ LET visited == VisitedNames(tbl, 1)
           named   == NamedCells(visited)
       IN  /\ rows' = [k \in 1 .. Len(named) |-> NameLine(named[k])]
           /\ wds' = [k \in 1 .. Len(named) |-> StringExtent(named[k])]
                     \o <<[name |-> "key_names_dead", cell |-> 1]>>
           /\ reads' = {visited[k] : k \in 1 .. Len(visited)} \cup {Len(visited) + 1}
           /\ steps' = Len(visited)
           /\ ptr' = Len(visited) + 2
    /\ wpc' = "done"
    /\ UNCHANGED <<tbl, wkind, wcount, wsize, notWalkVars>>

NextKeyNames == GenKeyNames

SpecKeyNames == InitKeyNames /\ [][NextKeyNames]_vars

\* The cells before the first null pointer of the array.
CellsBeforeNull ==
    {i \in 1 .. Len(tbl) : \A j \in 1 .. i : ~tbl[j].null}

\* C28: genKeyNames writes one entry for each cell of the array before the
\* null pointer, in the order of the array: the number of entries and the
\* number of string extents are the number of those cells, cells that
\* point to an empty string included.
C28_OneEntryPerName ==
    (wkind = "DEADKEY_LPWSTR" /\ wpc = "done") =>
        LET strings == {k \in 1 .. Len(wds) : wds[k].name = "Strings in key_names_dead"} IN
        /\ Len(rows) = Cardinality(CellsBeforeNull)
        /\ Cardinality(strings) = Cardinality(CellsBeforeNull)
        /\ \A k \in 1 .. Len(rows) : rows[k].cell = k
        /\ \A k \in strings : wds[k].cell = k

-----------------------------------------------------------------------------
(* SourceGenerator::genCharModifiers: the loop over ModNumber.             *)

\* WORD is an unsigned integer of 16 bits.
WordBits == 16

WordValues == 0 .. (Pow2(WordBits) - 1)

\* ++i on a WORD
WordIncrement(i) == (i + 1) % Pow2(WordBits)

\* The values of wMaxModBits followed: small ones and the two largest.
ModBitsValues == {0, 1, 2, 7, Pow2(WordBits) - 2, Pow2(WordBits) - 1}

\* The loop is followed for one entry more than a WORD has values.
MaxEntries == Pow2(WordBits) + 1

\* i <= mods.wMaxModBits
ModLoopTest(i, max_mod_bits) == i <= max_mod_bits

InitModifiers ==
    /\ tbl = <<>>
    /\ wkind = "MODIFIERS"
    /\ wcount \in ModBitsValues
    /\ wsize = 0
    /\ ptr = 0
    /\ rows = <<>>
    /\ reads = {}
    /\ steps = 0
    /\ wds = <<>>
    /\ wpc = "walk"
    /\ NoFormat
    /\ NoExtents
    /\ NoGenerate
    /\ NoMain
    /\ NoDump

\* One iteration of the loop: the entry ModNumber[i] is written, then ++i.
\* wcount is wMaxModBits, ptr the counter i, steps the number of entries.
ModEntry ==
    /\ wkind = "MODIFIERS"
    /\ wpc = "walk"
    /\ ModLoopTest(ptr, wcount)
    /\ steps < MaxEntries
    /\ steps' = steps + 1
    /\ ptr' = WordIncrement(ptr)
    /\ UNCHANGED <<tbl, wkind, wcount, wsize, rows, reads, wds, wpc, notWalkVars>>

\* The loop is over: ds.setEnd(&mods.ModNumber[0] + mods.wMaxModBits + 1),
\* the extent is pushed and the structure is written.
ModEnd ==
    /\ wkind = "MODIFIERS"
    /\ wpc = "walk"
    /\ ~ModLoopTest(ptr, wcount)
    /\ wds' = [name |-> "char_modifiers", entries |-> wcount + 1]
    /\ wpc' = "done"
    /\ UNCHANGED <<tbl, wkind, wcount, wsize, ptr, rows, reads, steps, notWalkVars>>

NextModifiers == ModEntry \/ ModEnd

SpecModifiers == InitModifiers /\ [][NextModifiers]_vars

\* C30: genCharModifiers writes wMaxModBits + 1 entries of ModNumber,
\* records an extent that ends after ModNumber[wMaxModBits] and ends, for
\* every value of wMaxModBits, 0xFFFF included.
C30_ModNumberEntries ==
    wkind = "MODIFIERS" =>
        /\ steps <= wcount + 1
        /\ wpc = "walk" => ptr = steps
        /\ wpc = "done" => (steps = wcount + 1 /\ wds.entries = wcount + 1)

====
